---- MODULE Spec2Model ----
(***************************************************************************)
(* rpi-iaq-monitor: the coalescing HomeBridge publisher                    *)
(* (src/src/homebridge_service.cpp), the wiring of main() between the      *)
(* BSEC output callback and the publisher (src/main.cpp,                   *)
(* src/src/air_quality_service.cpp) and the I2C transport SimpleI2CBus     *)
(* (simple_i2c_bus.cpp).                                                   *)
(*                                                                         *)
(* Three specifications share the variables:                               *)
(*   Spec      a HomeBridgeService object driven through its public API    *)
(*             (constructor, start, update, stop, destructor) by one       *)
(*             caller thread, together with its publishing thread;         *)
(*   MainSpec  main(): the service is created for a non-empty URL only,    *)
(*             the engine's output callback feeds update();                *)
(*   BusSpec   a SimpleI2CBus object driven through its public API.        *)
(* Doubles are abstracted to small integers; no claim depends on their     *)
(* arithmetic.                                                             *)
(***************************************************************************)
EXTENDS Integers, Sequences, FiniteSets, TLC

\* ------------------------------------------------------------------ bounds
\* number of distinct metric ids the API caller of Spec uses
NumMetrics == 2
\* values passed to update() are 1..MaxValue
MaxValue == 2
\* update() calls made by the API caller of Spec
MaxUpdates == 2
\* engine output cycles in MainSpec
MaxSamples == 2
\* descriptors the OS hands out in BusSpec
MaxFds == 3
\* sensors monitor() initialises (NUM_OF_SENS of the engine integration)
NUM_OF_SENS == 2
\* BSECScheduler calls made in SchedSpec
MaxCalls == 4
\* sleep function calls made in TimeSpec
MaxSleeps == 2
\* signals interrupting the waits of one sleep function call
MaxInterrupts == 1
\* bsec_get_timestamp_us calls made in TimeSpec
MaxStamps == 3
\* capacity of the serialized engine state (BSEC_MAX_STATE_BLOB_SIZE of the
\* engine headers), in bytes
BSEC_MAX_STATE_BLOB_SIZE == 2
\* state/config callback calls made in StoreSpec
MaxStoreCalls == 2

\* --------------------------------------------------------- program constants
\* simple_i2c_bus.h: #define I2C_BUS_MAX_BUFFER_SIZE 64
I2C_BUS_MAX_BUFFER_SIZE == 64

\* main.cpp 133-140: the update() calls of the callback, in call order
CallbackUpdates ==
    << "rpi4temperature", "rpi4humidity", "rpi4pressure", "rpi4iaq",
       "rpi4co2", "rpi4bvoc", "rpi4gas", "rpi4iaq_accuracy" >>

\* the same ids in the order std::map<std::string,double> iterates them
SortedKeys ==
    << "rpi4bvoc", "rpi4co2", "rpi4gas", "rpi4humidity", "rpi4iaq",
       "rpi4iaq_accuracy", "rpi4pressure", "rpi4temperature" >>

AllMetrics == {SortedKeys[i] : i \in 1..Len(SortedKeys)}

Rank(m) == CHOOSE i \in 1..Len(SortedKeys) : SortedKeys[i] = m

\* first element of a std::map iteration restricted to the keys S
LeastKey(S) == CHOOSE m \in S : \A n \in S : Rank(m) <= Rank(n)

ClientMetrics == {SortedKeys[i] : i \in 1..NumMetrics}

Values == 1..MaxValue

Urls == {"", "http://homebridge"}

VARIABLES
    \* ---- HomeBridgeService (homebridge_service.h 44-49)
    config_url,      \* config.url
    has_service,     \* main.cpp: homebridgeService != nullptr
    has_subscriber,  \* AirQualityService::onAirQualityChange holds a callable
    nThreads,        \* publishing threads start() has created
    running,         \* bool running
    sensors,         \* std::map sensors      (last updated values)
    next_sensors,    \* std::map next_sensors (values to update)
    mutex,           \* owner of sensors_map_mutex: "none", "caller", "pub"
    pub_pc,          \* position of the publishing thread
    todo,            \* keys of sensors the for-loop has still to visit
    \* ---- the thread calling the API (Spec) / main thread (MainSpec)
    cl_pc,           \* position of the calling thread
    upd,             \* arguments of the update() call in progress
    upd_ret,         \* where the update() call in progress returns to
    cb_idx,          \* next update() of the callback lambda (1..8), MainSpec
    sample,          \* AirQuality handed to the callback, MainSpec
    outputs,         \* bsec_output_ready invocations so far, MainSpec
    \* ---- observation of the run (history, not program state)
    okOutputs,       \* invocations with BSEC_OK so far
    subCalls,        \* invocations of the subscriber onAirQualityChange so far
    nUpdates,        \* update() calls begun by the API caller of Spec
    updCount,        \* per metric: update() calls completed
    lastVal,         \* per metric: value of the last completed store
    pendLatest,      \* per metric: latest value stored since the last merge
    pendOver,        \* per metric: values overwritten since the last merge
    snapLatest,      \* pendLatest as it was at the last merge
    snapOver,        \* pendOver as it was at the last merge
    known,           \* metrics merged at least once
    cycleCalls,      \* publish() calls of the current flush cycle
    cycleFailed,     \* a publish() of the current cycle failed
    afterFail,       \* a publish() was attempted after a failure in the cycle
    prevFailed,      \* the previous cycle had a failed publish()
    stopDone,        \* a stop() call has returned
    sleepsAfterStop, \* interval sleeps begun after stop() returned (max 2)
    accesses,        \* accesses to members made once the thread exists
    \* ---- SimpleI2CBus (simple_i2c_bus.h 33-35) and the OS under it
    busfd,           \* int busfd
    openFds,         \* descriptors the process holds open
    b_lastOp,        \* last SimpleI2CBus call
    b_lastRet,       \* its return value
    b_failed,        \* a transport failure happened since the last good open
    b_opAfterFail,   \* the last writeData/readData was issued while b_failed
    b_wasOpen,       \* isOpened() when the last call was entered
    b_lastLen,       \* data_len of the last register call
    b_lastIo,        \* system calls the last call issued, in order
    b_prevFds,       \* openFds when the last call was entered
    b_args,          \* reg_addr and the bytes at reg_data_ptr of the last call
    b_prev,          \* the call before the last, if a writeData that wrote
    b_data,          \* the bytes the last read stored at reg_data_ptr
    b_crashed,       \* the process died inside a transport call
    dev_mem,         \* the device: its registers that do not hold 0
    \* ---- AirQualityService::monitor (air_quality_service.cpp 236-299), main
    m_pc,            \* position of the main thread in main()/monitor()
    m_sens,          \* uint8_t i of the for-loop of monitor()
    m_init,          \* return_values_init ret of the last bsec_iot_init
    m_ret,           \* value monitor() returned
    exitStatus,      \* exit status of the process, -1 while it runs
    m_open,          \* outcome of the openI2CBus call of monitor()
    m_initCalls,     \* bsec_iot_init calls so far
    m_cbs,           \* callbacks the engine has invoked so far
    m_cbPhase,       \* where the engine was at its last register callback
    m_log,           \* error messages logged by monitor()
    \* ---- BSECScheduler (unnamed/part_000 93-96) and the monotonic clock
    last_call_time_us,
    scheduling_start_time_us,
    timing_violation_count,
    total_cycles,
    s_now,           \* PrecisionTiming::now_us()
    s_calls,         \* scheduler calls made so far
    s_lastOp,        \* last BSECScheduler call
    s_lastRet,       \* what waitForNextCall returned last
    s_lastDelay,     \* now - deadline (us) when waitForNextCall was entered last
    s_prev,          \* the statistics when the last call was entered
    s_lateSinceReset,\* waitForNextCall calls entered late since the last resetStats
    s_resetSignals,  \* waitForNextCall calls that returned false
    s_logged,        \* the log lines of the last call, if logSchedulingStats
    \* ---- the clocks and PrecisionTiming::sleep_until_ns (precision_timing.h
    \* 50-65), bsec_sleep_n and bsec_get_timestamp_us (air_quality_service.cpp)
    raw_sleep,       \* clock_nanosleep accepts CLOCK_MONOTONIC_RAW
    mono_skew,       \* CLOCK_MONOTONIC minus CLOCK_MONOTONIC_RAW, in us
    sl_pc,           \* position inside the sleep function running
    sl_kind,         \* the sleep function running or last run
    sl_target,       \* target_us of sleep_until_us
    sl_t_us,         \* t_us of bsec_sleep_n
    sl_entry,        \* now_us() when the sleep function was entered
    sl_result,       \* int result of the last wait
    sl_intr,         \* interruptions of the waits of this call
    sl_io,           \* the kinds of wait this call has issued
    sl_calls,        \* sleep function calls so far
    start_time_us,   \* static int64_t start_time_us of bsec_get_timestamp_us
    ts_calls,        \* bsec_get_timestamp_us calls so far
    ts_first,        \* now_us() at the first bsec_get_timestamp_us call
    ts_ret,          \* what bsec_get_timestamp_us returned last
    ts_prevRet,      \* what it returned the time before
    \* ---- the state file and the BSecProxy state/config callbacks
    st_dir,          \* IAQ_SAVED_STATE_DIR exists
    st_file,         \* the state file: whether it exists, and its content
    st_fileChanged,  \* the last bsec_state_save changed the state file
    st_pc,           \* "run", or "crashed" once the process has died
    st_calls,        \* state/config callback calls so far
    st_lastOp,       \* last state/config callback
    st_arg,          \* its arguments
    st_ioOk,         \* the file could be opened in that call
    st_ret,          \* what the last load returned
    st_copied,       \* the bytes the last load copied to its buffer
    cfg_copied,      \* number of bytes the last bsec_config_load copied
    st_saved         \* arguments of the last save that wrote the file

pubVars == << config_url, has_service, has_subscriber, nThreads, running, sensors, next_sensors, mutex,
              pub_pc, todo >>
callerVars == << cl_pc, upd, upd_ret, cb_idx, sample, outputs >>
histVars == << okOutputs, subCalls, nUpdates, updCount, lastVal, pendLatest, pendOver,
               snapLatest, snapOver, known, cycleCalls, cycleFailed,
               afterFail, prevFailed, stopDone, sleepsAfterStop, accesses >>
busVars == << busfd, openFds, b_lastOp, b_lastRet, b_failed, b_opAfterFail,
              b_wasOpen, b_lastLen, b_lastIo, b_prevFds, b_args, b_prev,
              b_data, b_crashed, dev_mem >>
monVars == << m_pc, m_sens, m_init, m_ret, exitStatus, m_open, m_initCalls,
              m_cbs, m_cbPhase, m_log >>
schedVars == << last_call_time_us, scheduling_start_time_us,
                timing_violation_count, total_cycles, s_now, s_calls, s_lastOp,
                s_lastRet, s_lastDelay, s_prev, s_lateSinceReset,
                s_resetSignals, s_logged >>

clockVars == << raw_sleep, mono_skew >>
sleepVars == << sl_pc, sl_kind, sl_target, sl_t_us, sl_entry, sl_result,
                sl_intr, sl_io, sl_calls >>
stampVars == << start_time_us, ts_calls, ts_first, ts_ret, ts_prevRet >>
timeVars == << clockVars, sleepVars, stampVars >>
storeVars == << st_dir, st_file, st_fileChanged, st_pc, st_calls, st_lastOp, st_arg, st_ioOk,
                st_ret, st_copied, cfg_copied, st_saved >>

\* what the HomeBridgeService and main() actions never touch
deviceVars == << busVars, monVars, schedVars, timeVars, storeVars >>

pubVars_but_pc == << config_url, has_service, has_subscriber, nThreads, running, sensors, next_sensors,
                    mutex, todo >>

vars == << pubVars, callerVars, histVars, busVars, monVars, schedVars,
          timeVars, storeVars >>

\* ------------------------------------------------------------------ helpers
\* byte values tried
Bytes == {0, 1}

\* the buffers of k bytes tried: alternating bytes, starting with either
ByteSeqs(k) == {[i \in 1..k |-> (i + b) % 2] : b \in Bytes}

\* the first n elements of q, as far as q has them
Take(q, n) == SubSeq(q, 1, IF n <= Len(q) THEN n ELSE Len(q))

EmptyMap == [m \in {} |-> 0]

NoUpdate == [id |-> "", value |-> 0]

NoSample == [iaq |-> 0]

\* std::map operator[] assignment: insert or overwrite
Put_insert(map, k, v) ==
    [x \in DOMAIN map \cup {k} |-> IF x \in DOMAIN map THEN map[x] ELSE v]

Put(map, k, v) ==
    [x \in DOMAIN map \cup {k} |-> IF x = k THEN v ELSE map[x]]

\* homebridge_service.cpp 83-85: for (sensor : next_sensors) sensors[k] = v
MergeInto_replace(s, n) == n

MergeInto(s, n) ==
    [x \in DOMAIN s \cup DOMAIN n |-> IF x \in DOMAIN n THEN n[x] ELSE s[x]]

\* std::mutex::lock() returns only when no thread owns the mutex
CanLock_always == TRUE

CanLock == mutex = "none"

\* homebridge_service.cpp 49: if (string(config.url).empty())
SkipsNetwork_never(url) == FALSE

SkipsNetwork(url) == url = ""

\* homebridge_service.cpp 91-95: the catch clauses of the publish loop
Caught_none(exc) == FALSE

Caught(exc) == exc \in {"HomeBridgeServiceError", "std::exception"}

\* what publish() raises for each result of cpr::Get (61-64)
Raised(outcome) ==
    CASE outcome = "200" -> "none"
      [] outcome = "non200" -> "HomeBridgeServiceError"
      [] outcome = "transport" -> "std::exception"

Outcomes == {"200", "non200", "transport"}

\* one access to a member, with whether the accessing thread owns the mutex
Acc(t, v) == [thread |-> t, var |-> v, locked |-> (mutex = t)]

Inc2(n) == IF n < 2 THEN n + 1 ELSE 2

CallsFor(m) == {i \in 1..Len(cycleCalls) : cycleCalls[i].id = m}


NoneYet == [m \in AllMetrics |-> 0]

NoValues == [m \in AllMetrics |-> {}]

\* ------------------------------------------------- the publishing thread
\* homebridge_service.cpp 78-80: the new thread sets running = true
thread_begin ==
    /\ pub_pc = "created"
    /\ running' = TRUE
    /\ pub_pc' = "while"
    /\ accesses' = accesses \cup {Acc("pub", "running")}
    /\ UNCHANGED << config_url, has_service, has_subscriber, nThreads, sensors, next_sensors, mutex, todo >>
    /\ UNCHANGED << callerVars, deviceVars >>
    /\ UNCHANGED << okOutputs, subCalls, nUpdates, updCount, lastVal, pendLatest, pendOver,
                    snapLatest, snapOver, known, cycleCalls, cycleFailed,
                    afterFail, prevFailed, stopDone, sleepsAfterStop >>

\* homebridge_service.cpp 81: while (running)
loop_check ==
    /\ pub_pc = "while"
    /\ pub_pc' = IF running THEN "lock" ELSE "exit"
    /\ accesses' = accesses \cup {Acc("pub", "running")}
    /\ UNCHANGED << config_url, has_service, has_subscriber, nThreads, running, sensors, next_sensors,
                    mutex, todo >>
    /\ UNCHANGED << callerVars, deviceVars >>
    /\ UNCHANGED << okOutputs, subCalls, nUpdates, updCount, lastVal, pendLatest, pendOver,
                    snapLatest, snapOver, known, cycleCalls, cycleFailed,
                    afterFail, prevFailed, stopDone, sleepsAfterStop >>

\* homebridge_service.cpp 82: sensors_map_mutex.lock()
merge_lock ==
    /\ pub_pc = "lock"
    /\ CanLock
    /\ mutex' = "pub"
    /\ pub_pc' = "merge"
    /\ UNCHANGED << config_url, has_service, has_subscriber, nThreads, running, sensors, next_sensors, todo >>
    /\ UNCHANGED << callerVars, histVars, deviceVars >>

\* homebridge_service.cpp 83-85: copy every pending entry into sensors
merge_copy ==
    /\ pub_pc = "merge"
    /\ sensors' = MergeInto(sensors, next_sensors)
    /\ pub_pc' = "clear"
    /\ snapLatest' = pendLatest
    /\ snapOver' = pendOver
    /\ pendLatest' = NoneYet
    /\ pendOver' = NoValues
    /\ known' = known \cup {m \in AllMetrics : pendLatest[m] # 0}
    /\ cycleCalls' = << >>
    /\ prevFailed' = cycleFailed
    /\ cycleFailed' = FALSE
    /\ afterFail' = FALSE
    /\ accesses' = accesses \cup {Acc("pub", "next_sensors"), Acc("pub", "sensors")}
    /\ UNCHANGED << config_url, has_service, has_subscriber, nThreads, running, next_sensors, mutex, todo >>
    /\ UNCHANGED << callerVars, deviceVars >>
    /\ UNCHANGED << okOutputs, subCalls, nUpdates, updCount, lastVal, stopDone,
                    sleepsAfterStop >>

\* homebridge_service.cpp 86: next_sensors.clear()
merge_clear ==
    /\ pub_pc = "clear"
    /\ next_sensors' = EmptyMap
    /\ pub_pc' = "unlock"
    /\ accesses' = accesses \cup {Acc("pub", "next_sensors")}
    /\ UNCHANGED << config_url, has_service, has_subscriber, nThreads, running, sensors, mutex, todo >>
    /\ UNCHANGED << callerVars, deviceVars >>
    /\ UNCHANGED << okOutputs, subCalls, nUpdates, updCount, lastVal, pendLatest, pendOver,
                    snapLatest, snapOver, known, cycleCalls, cycleFailed,
                    afterFail, prevFailed, stopDone, sleepsAfterStop >>

\* a thread that forgets the unlock of line 87
merge_unlock_missing ==
    /\ pub_pc = "unlock"
    /\ todo' = DOMAIN sensors
    /\ pub_pc' = "foreach"
    /\ UNCHANGED << config_url, has_service, has_subscriber, nThreads, running, sensors, next_sensors, mutex >>
    /\ UNCHANGED << callerVars, histVars, deviceVars >>

\* homebridge_service.cpp 87-88: unlock, then begin for (sensor : sensors)
merge_unlock ==
    /\ pub_pc = "unlock"
    /\ mutex' = "none"
    /\ todo' = DOMAIN sensors
    /\ pub_pc' = "foreach"
    /\ UNCHANGED << config_url, has_service, has_subscriber, nThreads, running, sensors, next_sensors >>
    /\ UNCHANGED << callerVars, histVars, deviceVars >>

\* homebridge_service.cpp 90, 47-53: publish() with an empty URL records the
\* value in sensors and returns without a request
publish_local ==
    /\ pub_pc = "foreach"
    /\ todo # {}
    /\ SkipsNetwork(config_url)
    /\ LET m == LeastKey(todo) IN
        /\ sensors' = Put(sensors, m, sensors[m])
        /\ cycleCalls' = Append(cycleCalls,
                                [id |-> m, value |-> sensors[m], net |-> FALSE])
        /\ todo' = todo \ {m}
    /\ afterFail' = (afterFail \/ cycleFailed)
    /\ accesses' = accesses \cup {Acc("pub", "sensors"), Acc("pub", "config")}
    /\ UNCHANGED << config_url, has_service, has_subscriber, nThreads, running, next_sensors, mutex, pub_pc >>
    /\ UNCHANGED << callerVars, deviceVars >>
    /\ UNCHANGED << okOutputs, subCalls, nUpdates, updCount, lastVal, pendLatest, pendOver,
                    snapLatest, snapOver, known, cycleFailed, prevFailed,
                    stopDone, sleepsAfterStop >>

\* homebridge_service.cpp 90, 55-61: publish() sends cpr::Get and blocks
publish_request ==
    /\ pub_pc = "foreach"
    /\ todo # {}
    /\ ~SkipsNetwork(config_url)
    /\ LET m == LeastKey(todo) IN
        cycleCalls' = Append(cycleCalls,
                             [id |-> m, value |-> sensors[m], net |-> TRUE])
    /\ pub_pc' = "inflight"
    /\ afterFail' = (afterFail \/ cycleFailed)
    /\ accesses' = accesses \cup {Acc("pub", "sensors"), Acc("pub", "config")}
    /\ UNCHANGED << config_url, has_service, has_subscriber, nThreads, running, sensors, next_sensors,
                    mutex, todo >>
    /\ UNCHANGED << callerVars, deviceVars >>
    /\ UNCHANGED << okOutputs, subCalls, nUpdates, updCount, lastVal, pendLatest, pendOver,
                    snapLatest, snapOver, known, cycleFailed, prevFailed,
                    stopDone, sleepsAfterStop >>

\* homebridge_service.cpp 61-65 and 89-95: the response arrives; a status
\* other than 200 throws HomeBridgeServiceError, which the loop catches
publish_response(outcome) ==
    /\ pub_pc = "inflight"
    /\ LET m == LeastKey(todo)
           exc == Raised(outcome) IN
        /\ sensors' = IF exc = "none" THEN Put(sensors, m, sensors[m]) ELSE sensors
        /\ cycleFailed' = (cycleFailed \/ exc # "none")
        /\ IF exc = "none" \/ Caught(exc)
              THEN /\ todo' = todo \ {m}
                   /\ pub_pc' = "foreach"
              ELSE /\ todo' = todo
                   /\ pub_pc' = "terminated"
    /\ accesses' = accesses \cup {Acc("pub", "sensors")}
    /\ UNCHANGED << config_url, has_service, has_subscriber, nThreads, running, next_sensors, mutex >>
    /\ UNCHANGED << callerVars, deviceVars >>
    /\ UNCHANGED << okOutputs, subCalls, nUpdates, updCount, lastVal, pendLatest, pendOver,
                    snapLatest, snapOver, known, cycleCalls, afterFail,
                    prevFailed, stopDone, sleepsAfterStop >>

\* homebridge_service.cpp 96-97: the for-loop is over, sleep_for(interval)
loop_sleep ==
    /\ pub_pc = "foreach"
    /\ todo = {}
    /\ pub_pc' = "sleep"
    /\ sleepsAfterStop' = IF stopDone THEN Inc2(sleepsAfterStop) ELSE sleepsAfterStop
    /\ accesses' = accesses \cup {Acc("pub", "config")}
    /\ UNCHANGED pubVars_but_pc
    /\ UNCHANGED << callerVars, deviceVars >>
    /\ UNCHANGED << okOutputs, subCalls, nUpdates, updCount, lastVal, pendLatest, pendOver,
                    snapLatest, snapOver, known, cycleCalls, cycleFailed,
                    afterFail, prevFailed, stopDone >>

\* homebridge_service.cpp 97-98: the sleep is over, back to the loop test
sleep_return ==
    /\ pub_pc = "sleep"
    /\ pub_pc' = "while"
    /\ UNCHANGED pubVars_but_pc
    /\ UNCHANGED << callerVars, histVars, deviceVars >>

\* homebridge_service.cpp 99-100: running = false, the thread function returns
thread_end ==
    /\ pub_pc = "exit"
    /\ running' = FALSE
    /\ pub_pc' = "done"
    /\ accesses' = accesses \cup {Acc("pub", "running")}
    /\ UNCHANGED << config_url, has_service, has_subscriber, nThreads, sensors, next_sensors, mutex, todo >>
    /\ UNCHANGED << callerVars, deviceVars >>
    /\ UNCHANGED << okOutputs, subCalls, nUpdates, updCount, lastVal, pendLatest, pendOver,
                    snapLatest, snapOver, known, cycleCalls, cycleFailed,
                    afterFail, prevFailed, stopDone, sleepsAfterStop >>

\* ------------------------------------------- HomeBridgeService public API
\* homebridge_service.cpp 68-102: start() returns at once when running is
\* set, otherwise creates the publishing thread
start ==
    /\ cl_pc = "init"
    /\ has_service
    /\ pub_pc' = IF running THEN pub_pc ELSE "created"
    /\ nThreads' = IF running THEN nThreads ELSE nThreads + 1
    /\ cl_pc' = "run"
    /\ UNCHANGED << config_url, has_service, has_subscriber, running, sensors,
                    next_sensors, mutex, todo >>
    /\ UNCHANGED << upd, upd_ret, cb_idx, sample, outputs >>
    /\ UNCHANGED << histVars, deviceVars >>

\* homebridge_service.cpp 68-81: start() on a publisher that was started
\* before. running is set by the thread, not by start(), and cleared by stop()
\* and by the ending thread; past the test a second thread is created (78) and
\* move-assigned to publishing_thread, which still owns the first one and was
\* never joined: std::terminate()
start_again ==
    /\ cl_pc \in {"run", "stopped"}
    /\ has_service
    /\ pub_pc # "none"
    /\ accesses' = accesses \cup {Acc("caller", "running")}
    /\ IF running
          THEN UNCHANGED << cl_pc, pub_pc, nThreads >>
          ELSE /\ nThreads' = nThreads + 1
               /\ cl_pc' = "terminated"
               /\ pub_pc' = "terminated"
    /\ UNCHANGED << config_url, has_service, has_subscriber, running, sensors,
                    next_sensors, mutex, todo >>
    /\ UNCHANGED << upd, upd_ret, cb_idx, sample, outputs >>
    /\ UNCHANGED deviceVars
    /\ UNCHANGED << okOutputs, subCalls, nUpdates, updCount, lastVal, pendLatest, pendOver,
                    snapLatest, snapOver, known, cycleCalls, cycleFailed,
                    afterFail, prevFailed, stopDone, sleepsAfterStop >>

\* air_quality_service.cpp 301-303
setOnAirQualityChange ==
    /\ cl_pc = "run"
    /\ ~has_subscriber
    /\ has_subscriber' = TRUE
    /\ UNCHANGED << config_url, has_service, nThreads, running, sensors,
                    next_sensors, mutex, pub_pc, todo >>
    /\ UNCHANGED << callerVars, histVars, deviceVars >>

\* homebridge_service.cpp 41: the caller of Spec enters update(m, v)
update_call(m, v) ==
    /\ cl_pc = "run"
    /\ nUpdates < MaxUpdates
    /\ upd' = [id |-> m, value |-> v]
    /\ upd_ret' = "run"
    /\ cl_pc' = "upd_lock"
    /\ nUpdates' = nUpdates + 1
    /\ UNCHANGED << pubVars, deviceVars >>
    /\ UNCHANGED << cb_idx, sample, outputs >>
    /\ UNCHANGED << okOutputs, subCalls, updCount, lastVal, pendLatest, pendOver,
                    snapLatest, snapOver, known, cycleCalls, cycleFailed,
                    afterFail, prevFailed, stopDone, sleepsAfterStop, accesses >>

\* homebridge_service.cpp 42: sensors_map_mutex.lock()
update_lock ==
    /\ cl_pc = "upd_lock"
    /\ CanLock
    /\ mutex' = "caller"
    /\ cl_pc' = "upd_store"
    /\ UNCHANGED << config_url, has_service, has_subscriber, nThreads, running, sensors, next_sensors,
                    pub_pc, todo >>
    /\ UNCHANGED << upd, upd_ret, cb_idx, sample, outputs >>
    /\ UNCHANGED << histVars, deviceVars >>

\* homebridge_service.cpp 43: next_sensors[sensor_id] = value
update_store ==
    /\ cl_pc = "upd_store"
    /\ next_sensors' = Put(next_sensors, upd.id, upd.value)
    /\ cl_pc' = "upd_unlock"
    /\ lastVal' = [lastVal EXCEPT ![upd.id] = upd.value]
    /\ pendLatest' = [pendLatest EXCEPT ![upd.id] = upd.value]
    /\ pendOver' = [pendOver EXCEPT ![upd.id] =
                      IF pendLatest[upd.id] # 0 THEN @ \cup {pendLatest[upd.id]}
                                                ELSE @]
    /\ accesses' = accesses \cup {Acc("caller", "next_sensors")}
    /\ UNCHANGED << config_url, has_service, has_subscriber, nThreads, running, sensors, mutex, pub_pc, todo >>
    /\ UNCHANGED << upd, upd_ret, cb_idx, sample, outputs >>
    /\ UNCHANGED deviceVars
    /\ UNCHANGED << okOutputs, subCalls, nUpdates, updCount, snapLatest, snapOver, known,
                    cycleCalls, cycleFailed, afterFail, prevFailed, stopDone,
                    sleepsAfterStop >>

\* homebridge_service.cpp 44-45: unlock and return to the caller
update_unlock ==
    /\ cl_pc = "upd_unlock"
    /\ mutex' = "none"
    /\ cl_pc' = upd_ret
    /\ upd' = NoUpdate
    /\ updCount' = [updCount EXCEPT ![upd.id] = @ + 1]
    /\ UNCHANGED << config_url, has_service, has_subscriber, nThreads, running, sensors, next_sensors,
                    pub_pc, todo >>
    /\ UNCHANGED << upd_ret, cb_idx, sample, outputs >>
    /\ UNCHANGED deviceVars
    /\ UNCHANGED << okOutputs, subCalls, nUpdates, lastVal, pendLatest, pendOver,
                    snapLatest, snapOver, known, cycleCalls, cycleFailed,
                    afterFail, prevFailed, stopDone, sleepsAfterStop, accesses >>

\* homebridge_service.cpp 104-106: stop() clears running
stop ==
    /\ cl_pc = "run"
    /\ pub_pc # "none"
    /\ running' = FALSE
    /\ cl_pc' = "stopped"
    /\ stopDone' = TRUE
    /\ accesses' = accesses \cup {Acc("caller", "running")}
    /\ UNCHANGED << config_url, has_service, has_subscriber, nThreads, sensors, next_sensors, mutex,
                    pub_pc, todo >>
    /\ UNCHANGED << upd, upd_ret, cb_idx, sample, outputs >>
    /\ UNCHANGED deviceVars
    /\ UNCHANGED << okOutputs, subCalls, nUpdates, updCount, lastVal, pendLatest, pendOver,
                    snapLatest, snapOver, known, cycleCalls, cycleFailed,
                    afterFail, prevFailed, sleepsAfterStop >>

\* homebridge_service.cpp 34-35: the destructor calls stop()
destructor_stop ==
    /\ cl_pc \in {"run", "stopped"}
    /\ pub_pc # "none"
    /\ running' = FALSE
    /\ cl_pc' = "join"
    /\ stopDone' = TRUE
    /\ accesses' = accesses \cup {Acc("caller", "running")}
    /\ UNCHANGED << config_url, has_service, has_subscriber, nThreads, sensors, next_sensors, mutex,
                    pub_pc, todo >>
    /\ UNCHANGED << upd, upd_ret, cb_idx, sample, outputs >>
    /\ UNCHANGED deviceVars
    /\ UNCHANGED << okOutputs, subCalls, nUpdates, updCount, lastVal, pendLatest, pendOver,
                    snapLatest, snapOver, known, cycleCalls, cycleFailed,
                    afterFail, prevFailed, sleepsAfterStop >>

\* homebridge_service.cpp 36-38: publishing_thread.join() returns once the
\* thread function has returned
destructor_join ==
    /\ cl_pc = "join"
    /\ pub_pc = "done"
    /\ cl_pc' = "destroyed"
    /\ UNCHANGED << pubVars, histVars, deviceVars >>
    /\ UNCHANGED << upd, upd_ret, cb_idx, sample, outputs >>

\* ------------------------------------------------------------------ main()
\* constants.h 28: IAQ_TEMP_OFFSET 9.0f, the default of config.iaq_temp_offset
IaqTempOffset == 9

\* the output_t fields the engine reports in its v-th output cycle
Outputs(v) ==
    [iaq |-> 50 * v, iaq_accuracy |-> v, temperature |-> 20 + v,
     raw_pressure |-> 100000 + 100 * v, humidity |-> 40 + v,
     co2_equivalent |-> 400 + v, breath_voc_equivalent |-> v,
     gas_percentage |-> 60 + v]

\* air_quality_service.cpp 125-134: the AirQuality built from the outputs
AirQualityOf_swapped(o) ==
    [iaq |-> o.iaq, iaq_accuracy |-> o.iaq_accuracy,
     temperature |-> o.humidity, pressure |-> o.raw_pressure,
     humidity |-> o.temperature, co2 |-> o.co2_equivalent,
     bVOC |-> o.breath_voc_equivalent, gas_percentage |-> o.gas_percentage]

AirQualityOf(o) ==
    [iaq |-> o.iaq, iaq_accuracy |-> o.iaq_accuracy,
     temperature |-> o.temperature, pressure |-> o.raw_pressure,
     humidity |-> o.humidity, co2 |-> o.co2_equivalent,
     bVOC |-> o.breath_voc_equivalent, gas_percentage |-> o.gas_percentage]

\* main.cpp 119, 133-140: the value of the i-th update() of the callback
CallbackValue(i, aq) ==
    CASE i = 1 -> aq.temperature - IaqTempOffset
      [] i = 2 -> aq.humidity
      [] i = 3 -> aq.pressure \div 100
      [] i = 4 -> aq.iaq
      [] i = 5 -> aq.co2
      [] i = 6 -> aq.bVOC
      [] i = 7 -> aq.gas_percentage
      [] i = 8 -> aq.iaq_accuracy

\* air_quality_service.cpp 124: if (bsec_status == BSEC_OK)
Forwards_any(status) == TRUE

Forwards(status) == status = "BSEC_OK"

Statuses == {"BSEC_OK", "BSEC_W_DOSTEPS_NOTENOUGHDATA"}

\* main.cpp 103-118: the service is created and started for a non-empty
\* homebridge_url only; the lambda is registered before monitoring starts
main_create_service ==
    /\ cl_pc = "main"
    /\ IF config_url # ""
          THEN /\ has_service' = TRUE
               /\ pub_pc' = IF running THEN pub_pc ELSE "created"
               /\ nThreads' = IF running THEN nThreads ELSE nThreads + 1
          ELSE /\ has_service' = FALSE
               /\ pub_pc' = pub_pc
               /\ nThreads' = nThreads
    /\ has_subscriber' = TRUE
    /\ cl_pc' = "run"
    /\ UNCHANGED << config_url, running, sensors, next_sensors, mutex, todo >>
    /\ UNCHANGED << upd, upd_ret, cb_idx, sample, outputs >>
    /\ UNCHANGED << histVars, deviceVars >>

\* air_quality_service.cpp 123-138: the engine reports one output cycle
bsec_output_ready(status) ==
    /\ cl_pc = "run"
    /\ outputs < MaxSamples
    /\ outputs' = outputs + 1
    /\ okOutputs' = IF status = "BSEC_OK" THEN okOutputs + 1 ELSE okOutputs
    /\ IF Forwards(status) /\ has_subscriber
          THEN \* 125: onAirQualityChange(AirQuality {...}) calls the lambda
               /\ sample' = AirQualityOf(Outputs(outputs + 1))
               /\ subCalls' = subCalls + 1
               /\ cb_idx' = 1
               /\ cl_pc' = "callback"
               /\ UNCHANGED pub_pc
          ELSE IF Forwards(status)
          THEN \* 125: the call of an empty std::function throws
               \* std::bad_function_call, which nothing catches
               /\ cl_pc' = "bad_function_call"
               /\ pub_pc' = "terminated"
               /\ UNCHANGED << sample, subCalls, cb_idx >>
          ELSE UNCHANGED << sample, subCalls, cb_idx, cl_pc, pub_pc >>
    /\ UNCHANGED pubVars_but_pc
    /\ UNCHANGED deviceVars
    /\ UNCHANGED << upd, upd_ret >>
    /\ UNCHANGED << nUpdates, updCount, lastVal, pendLatest, pendOver,
                    snapLatest, snapOver, known, cycleCalls, cycleFailed,
                    afterFail, prevFailed, stopDone, sleepsAfterStop, accesses >>

\* main.cpp 132-140: if (homebridgeService), the next update() of the lambda
callback_update ==
    /\ cl_pc = "callback"
    /\ has_service
    /\ cb_idx <= Len(CallbackUpdates)
    /\ upd' = [id |-> CallbackUpdates[cb_idx], value |-> CallbackValue(cb_idx, sample)]
    /\ upd_ret' = "callback"
    /\ cb_idx' = cb_idx + 1
    /\ cl_pc' = "upd_lock"
    /\ UNCHANGED << pubVars, histVars, deviceVars >>
    /\ UNCHANGED << sample, outputs >>

\* main.cpp 141-142: the lambda returns
callback_return ==
    /\ cl_pc = "callback"
    /\ ~has_service \/ cb_idx > Len(CallbackUpdates)
    /\ cl_pc' = "run"
    /\ sample' = NoSample
    /\ UNCHANGED << pubVars, histVars, deviceVars >>
    /\ UNCHANGED << upd, upd_ret, cb_idx, outputs >>

\* ------------------------------------------------------------ SimpleI2CBus
\* the descriptors open() can return
FdPool == 3..(2 + MaxFds)

\* data_len arguments tried: up to the largest accepted (63) and beyond;
\* BusSpec adds 2^32 - 1 (as -1) for writes and 128 for reads
DataLens == {0, 1, I2C_BUS_MAX_BUFFER_SIZE - 1, I2C_BUS_MAX_BUFFER_SIZE}

\* simple_i2c_bus.cpp 43-45
isOpened == busfd # -1

\* write(2)/read(2) of n bytes: EBADF on a descriptor that is not open,
\* otherwise an error or the whole transfer
SysTransfer(fd, n) == IF fd \in openFds THEN {-1, n} ELSE {-1}

\* i2c_smbus_write_byte: negative on error (EBADF on a closed descriptor)
SysSelect(fd) == IF fd \in openFds THEN {-1, 0} ELSE {-1}

\* close(2) of fd: EBADF, and nothing closed, on a descriptor that is not open
SysClose_all(fds, fd) == IF fd \in fds THEN fds \ {fd} ELSE {}

SysClose(fds, fd) == fds \ {fd}

\* simple_i2c_bus.cpp 82: data_len + 1 > I2C_BUS_MAX_BUFFER_SIZE, computed in
\* uint32_t; a length of 2^31 or more is written as its 32-bit pattern read
\* as a signed number (2^32 - 1 is -1), so that the sum wraps as the code's does
\* and an unsigned value exceeds 64 when the pattern is above 64 or negative
TooLong_offByOne(data_len) == data_len > I2C_BUS_MAX_BUFFER_SIZE

TooLong(data_len) ==
    data_len + 1 > I2C_BUS_MAX_BUFFER_SIZE \/ data_len + 1 < 0

\* simple_i2c_bus.cpp 96-99: busfd after write() returned ret
FdAfterWrite_keep(fd, ret) == fd

FdAfterWrite(fd, ret) == IF ret < 0 THEN -1 ELSE fd

\* simple_i2c_bus.cpp 89-92: buffer[0] = reg_addr, the payload behind it
WriteBuffer_noAddress(reg_addr, payload) == payload

WriteBuffer(reg_addr, payload) == << reg_addr >> \o payload

\* the register-addressed device receiving the bytes buf of one write(): the
\* first byte selects a register, the others go to it and to those after it
DevWrite(mem, buf) ==
    IF buf = << >>
       THEN mem
       ELSE LET cells == {<< (buf[1] + i - 2) % 256, buf[i] >> : i \in 2..Len(buf)}
            IN  {c \in mem : \A d \in cells : d[1] # c[1]} \cup
                {d \in cells : d[2] # 0}

\* the n bytes the device delivers to a read() after register reg_addr was
\* selected
DevRead(mem, reg_addr, n) ==
    [i \in 1..n |->
        LET at == {c \in mem : c[1] = (reg_addr + i - 1) % 256}
        IN  IF at = {} THEN 0 ELSE (CHOOSE c \in at : TRUE)[2]]

\* air_quality_service.cpp 309, 316: the int result converted to int8_t
ToInt8(x) == ((x + 128) % 256) - 128

\* air_quality_service.cpp 67, 82: (ret < 0) ? BME68X_E_COM_FAIL : BME68X_OK
CallbackStatus(ret) == IF ret < 0 THEN "BME68X_E_COM_FAIL" ELSE "BME68X_OK"

\* what every SimpleI2CBus call records on entry
BusEntry(op, reg_addr, payload, data_len) ==
    /\ ~b_crashed
    /\ b_lastOp' = op
    /\ b_wasOpen' = isOpened
    /\ b_lastLen' = data_len
    /\ b_prevFds' = openFds
    /\ b_args' = [reg |-> reg_addr, payload |-> payload]
    /\ b_prev' = IF b_lastOp = "writeData" /\ b_lastIo = << "write" >>
                    THEN [written |-> TRUE, args |-> b_args]
                    ELSE [written |-> FALSE,
                          args |-> [reg |-> 0, payload |-> << >>]]

\* simple_i2c_bus.cpp 47-69, on the transport alone
Bus_openI2CBus(openOk, ioctlOk) ==
    /\ BusEntry("openI2CBus", 0, << >>, 0)
    /\ b_opAfterFail' = FALSE
    /\ b_data' = << >>
    /\ UNCHANGED << b_crashed, dev_mem >>
    /\ IF ~openOk \/ FdPool \subseteq openFds
          THEN \* open() failed: -1, nothing assigned
               /\ b_lastRet' = -1
               /\ b_lastIo' = << "open" >>
               /\ UNCHANGED << busfd, openFds, b_failed >>
          ELSE LET fd == CHOOSE f \in FdPool \ openFds :
                            \A g \in FdPool \ openFds : f <= g IN
               IF ~ioctlOk
                  THEN \* ioctl failed: close(fd), -1
                       /\ b_lastRet' = -1
                       /\ b_lastIo' = << "open", "ioctl", "close" >>
                       /\ UNCHANGED << busfd, openFds, b_failed >>
                  ELSE /\ busfd' = fd
                       /\ openFds' = openFds \cup {fd}
                       /\ b_lastRet' = fd
                       /\ b_lastIo' = << "open", "ioctl" >>
                       /\ b_failed' = FALSE

\* simple_i2c_bus.cpp 71-74, on the transport alone
Bus_closeI2CBus ==
    /\ BusEntry("closeI2CBus", 0, << >>, 0)
    /\ b_opAfterFail' = FALSE
    /\ openFds' = SysClose(openFds, busfd)
    /\ busfd' = -1
    /\ b_lastIo' = << "close" >>
    /\ b_data' = << >>
    /\ UNCHANGED << b_lastRet, b_failed, b_crashed, dev_mem >>

\* simple_i2c_bus.cpp 76-102, on the transport alone; op names the caller
\* and int8 tells whether the result passes through an int8_t; payload is
\* what reg_data_ptr points to
Bus_writeData(op, reg_addr, payload, data_len, int8) ==
    /\ BusEntry(op, reg_addr, payload, data_len)
    /\ b_opAfterFail' = b_failed
    /\ b_data' = << >>
    /\ IF busfd < 0
          THEN /\ b_lastRet' = -1
               /\ b_lastIo' = << >>
               /\ UNCHANGED << busfd, openFds, b_failed, b_crashed, dev_mem >>
          ELSE IF TooLong(data_len)
          THEN /\ openFds' = SysClose(openFds, busfd)
               /\ busfd' = -1
               /\ b_lastRet' = -1
               /\ b_lastIo' = << "close" >>
               /\ UNCHANGED << b_failed, b_crashed, dev_mem >>
          ELSE \/ \E ret \in SysTransfer(busfd, data_len + 1) :
                  /\ busfd' = FdAfterWrite(busfd, ret)
                  /\ openFds' = IF busfd' = -1 THEN SysClose(openFds, busfd)
                                               ELSE openFds
                  /\ b_lastRet' = IF int8 THEN ToInt8(ret) ELSE ret
                  /\ b_lastIo' = IF ret < 0 THEN << "write", "close" >>
                                            ELSE << "write" >>
                  /\ b_failed' = (b_failed \/ ret < 0)
                  /\ dev_mem' = IF ret < 0
                                   THEN dev_mem
                                   ELSE DevWrite(dev_mem,
                                           Take(WriteBuffer(reg_addr, payload),
                                                data_len + 1))
                  /\ UNCHANGED b_crashed
               \/ \* 92: memcpy of more bytes than buffer + 1 can take
                  /\ data_len < 0
                  /\ b_crashed' = TRUE
                  /\ b_lastIo' = << >>
                  /\ UNCHANGED << busfd, openFds, b_lastRet, b_failed, dev_mem >>

\* simple_i2c_bus.cpp 104-123, on the transport alone
Bus_readData(op, reg_addr, data_len, int8) ==
    /\ BusEntry(op, reg_addr, << >>, data_len)
    /\ b_opAfterFail' = b_failed
    /\ UNCHANGED << b_crashed, dev_mem >>
    /\ \E sel \in SysSelect(busfd) :
         IF sel < 0
            THEN /\ openFds' = SysClose(openFds, busfd)
                 /\ busfd' = -1
                 /\ b_lastRet' = sel
                 /\ b_lastIo' = << "i2c_smbus_write_byte", "close" >>
                 /\ b_failed' = TRUE
                 /\ b_data' = << >>
            ELSE \E ret \in SysTransfer(busfd, data_len) :
                 /\ busfd' = IF ret < 0 THEN -1 ELSE busfd
                 /\ openFds' = IF ret < 0 THEN SysClose(openFds, busfd)
                                          ELSE openFds
                 /\ b_lastRet' = IF int8 THEN ToInt8(ret) ELSE ret
                 /\ b_lastIo' = IF ret < 0
                                   THEN << "i2c_smbus_write_byte", "read", "close" >>
                                   ELSE << "i2c_smbus_write_byte", "read" >>
                 /\ b_failed' = (b_failed \/ ret < 0)
                 /\ b_data' = IF ret < 0 THEN << >>
                                         ELSE DevRead(dev_mem, reg_addr, ret)

\* air_quality_service.cpp 310-312, 317-319: return -1 on a closed transport
Adapter_closed(op, reg_addr, payload, data_len) ==
    /\ BusEntry(op, reg_addr, payload, data_len)
    /\ b_opAfterFail' = b_failed
    /\ b_lastRet' = -1
    /\ b_lastIo' = << >>
    /\ b_data' = << >>
    /\ UNCHANGED << busfd, openFds, b_failed, b_crashed, dev_mem >>

\* air_quality_service.cpp 316-321, on the transport alone
Adapter_writeI2CRegister(reg_addr, payload, data_len) ==
    IF ~isOpened
       THEN Adapter_closed("writeI2CRegister", reg_addr, payload, data_len)
       ELSE Bus_writeData("writeI2CRegister", reg_addr, payload, data_len, TRUE)

\* air_quality_service.cpp 309-314, on the transport alone
Adapter_readI2CRegister(reg_addr, data_len) ==
    IF ~isOpened
       THEN Adapter_closed("readI2CRegister", reg_addr, << >>, data_len)
       ELSE Bus_readData("readI2CRegister", reg_addr, data_len, TRUE)

\* the calls as made on a transport of its own
openI2CBus(openOk, ioctlOk) ==
    /\ Bus_openI2CBus(openOk, ioctlOk)
    /\ UNCHANGED << pubVars, callerVars, histVars, monVars, schedVars, timeVars, storeVars >>

closeI2CBus ==
    /\ Bus_closeI2CBus
    /\ UNCHANGED << pubVars, callerVars, histVars, monVars, schedVars, timeVars, storeVars >>

writeData(reg_addr, payload, data_len) ==
    /\ Bus_writeData("writeData", reg_addr, payload, data_len, FALSE)
    /\ UNCHANGED << pubVars, callerVars, histVars, monVars, schedVars, timeVars, storeVars >>

readData(reg_addr, data_len) ==
    /\ Bus_readData("readData", reg_addr, data_len, FALSE)
    /\ UNCHANGED << pubVars, callerVars, histVars, monVars, schedVars, timeVars, storeVars >>

writeI2CRegister(reg_addr, payload, data_len) ==
    /\ Adapter_writeI2CRegister(reg_addr, payload, data_len)
    /\ UNCHANGED << pubVars, callerVars, histVars, monVars, schedVars, timeVars, storeVars >>

readI2CRegister(reg_addr, data_len) ==
    /\ Adapter_readI2CRegister(reg_addr, data_len)
    /\ UNCHANGED << pubVars, callerVars, histVars, monVars, schedVars, timeVars, storeVars >>

\* ------------------------------------------- AirQualityService::monitor
\* what bsec_iot_init can report (air_quality_service.cpp 271, 277, 280)
Bme68xStatuses == {"BME68X_OK", "BME68X_E_COM_FAIL"}

BsecStatuses == {"BSEC_OK", "BSEC_W_SU_SAMPLERATEMISMATCH", "BSEC_E_CONFIG_FAIL"}

\* air_quality_service.cpp 275, 286: (int) of a status; the enumerators are
\* those of the sensor driver and of the engine, whose OK values are zero
StatusCode(s) ==
    CASE s \in {"BME68X_OK", "BSEC_OK"} -> 0
      [] s = "BME68X_E_COM_FAIL" -> -2
      [] s = "BSEC_W_SU_SAMPLERATEMISMATCH" -> 14
      [] s = "BSEC_E_CONFIG_FAIL" -> -32

InitOk == [bme68x_status |-> "BME68X_OK", bsec_status |-> "BSEC_OK"]

\* air_quality_service.cpp 264-270: the callbacks handed to bsec_iot_init,
\* 294: those handed to bsec_iot_loop; the register callbacks (257-258) have
\* actions of their own
InitCallbacks == {"bsec_sleep_n", "bsec_state_load", "bsec_config_load"}

LoopCallbacks == {"bsec_sleep_n", "bsec_get_timestamp_us", "bsec_output_ready",
                  "bsec_state_save"}

EnginePhase == CASE m_pc = "in_init" -> "init"
                 [] m_pc = "loop" -> "loop"
                 [] OTHER -> "none"

\* air_quality_service.cpp 271, 277: the result of bsec_iot_init makes
\* monitor() return
InitFails_bmeOnly(ret) == ret.bme68x_status # "BME68X_OK"

InitFails(ret) ==
    ret.bme68x_status # "BME68X_OK" \/ ret.bsec_status # "BSEC_OK"

\* air_quality_service.cpp 275, 286: the value monitor() then returns
InitReturn(ret) ==
    IF ret.bme68x_status # "BME68X_OK"
       THEN StatusCode(ret.bme68x_status)
       ELSE StatusCode(ret.bsec_status)

\* air_quality_service.cpp 274, 280-285: the error lines logged for the result
InitLog(ret) ==
    IF ret.bme68x_status # "BME68X_OK"
       THEN {"Could not intialize BME68x"}
       ELSE IF ret.bsec_status # "BSEC_OK"
       THEN (IF ret.bsec_status = "BSEC_W_SU_SAMPLERATEMISMATCH"
                THEN {"The sample rate doesn't match the config"}
                ELSE {}) \cup {"Could not intialize BSEC library"}
       ELSE {}

\* air_quality_service.cpp 241: openI2CBus(...) < 0
OpenFailed_never(ret) == FALSE

OpenFailed(ret) == ret < 0

\* main.cpp 145: airQualityService->start(); start() runs monitor()
start_call ==
    /\ m_pc = "main"
    /\ m_pc' = "monitor"
    /\ UNCHANGED << m_sens, m_init, m_ret, exitStatus, m_open, m_initCalls,
                    m_cbs, m_cbPhase, m_log >>
    /\ UNCHANGED << pubVars, callerVars, histVars, busVars, schedVars, timeVars, storeVars >>

\* air_quality_service.cpp 241-244
monitor_open(openOk, ioctlOk) ==
    /\ m_pc = "monitor"
    /\ Bus_openI2CBus(openOk, ioctlOk)
    /\ m_open' = IF b_lastRet' >= 0 /\ busfd' = b_lastRet' THEN "ok" ELSE "failed"
    /\ IF OpenFailed(b_lastRet')
          THEN /\ m_log' = m_log \cup {"Failed to open the i2c bus"}
               /\ m_ret' = -1
               /\ m_pc' = "returned"
          ELSE /\ m_pc' = "for"
               /\ UNCHANGED << m_log, m_ret >>
    /\ m_sens' = 0
    /\ UNCHANGED << m_init, exitStatus, m_initCalls, m_cbs, m_cbPhase >>
    /\ UNCHANGED << pubVars, callerVars, histVars, schedVars, timeVars, storeVars >>

\* air_quality_service.cpp 252, 264-270: the next bsec_iot_init call
init_call ==
    /\ m_pc = "for"
    /\ m_sens < NUM_OF_SENS
    /\ m_initCalls' = m_initCalls + 1
    /\ m_pc' = "in_init"
    /\ UNCHANGED << m_sens, m_init, m_ret, exitStatus, m_open, m_cbs,
                    m_cbPhase, m_log >>
    /\ UNCHANGED << pubVars, callerVars, histVars, busVars, schedVars, timeVars, storeVars >>

\* the engine invokes one of the callbacks it was given, other than a
\* register callback
engine_callback(cb) ==
    /\ \/ m_pc = "in_init" /\ cb \in InitCallbacks
       \/ m_pc = "loop" /\ cb \in LoopCallbacks
    /\ m_cbs' = m_cbs \cup {cb}
    /\ UNCHANGED << m_pc, m_sens, m_init, m_ret, exitStatus, m_open,
                    m_initCalls, m_cbPhase, m_log >>
    /\ UNCHANGED << pubVars, callerVars, histVars, busVars, schedVars, timeVars, storeVars >>

\* air_quality_service.cpp 65-68: bsec_i2c_register_write
engine_register_write(data_len) ==
    /\ m_pc \in {"in_init", "loop"}
    /\ Adapter_writeI2CRegister(0, [i \in 1..data_len |-> 0], data_len)
    /\ m_cbs' = m_cbs \cup {"bsec_i2c_register_write"}
    /\ m_cbPhase' = EnginePhase
    /\ UNCHANGED << m_pc, m_sens, m_init, m_ret, exitStatus, m_open,
                    m_initCalls, m_log >>
    /\ UNCHANGED << pubVars, callerVars, histVars, schedVars, timeVars, storeVars >>

\* air_quality_service.cpp 80-83: bsec_i2c_register_read
engine_register_read(data_len) ==
    /\ m_pc \in {"in_init", "loop"}
    /\ Adapter_readI2CRegister(0, data_len)
    /\ m_cbs' = m_cbs \cup {"bsec_i2c_register_read"}
    /\ m_cbPhase' = EnginePhase
    /\ UNCHANGED << m_pc, m_sens, m_init, m_ret, exitStatus, m_open,
                    m_initCalls, m_log >>
    /\ UNCHANGED << pubVars, callerVars, histVars, schedVars, timeVars, storeVars >>

\* air_quality_service.cpp 264-288: bsec_iot_init returns bme, bsec
init_return(bme, bsec) ==
    /\ m_pc = "in_init"
    /\ m_init' = [bme68x_status |-> bme, bsec_status |-> bsec]
    /\ m_log' = m_log \cup InitLog(m_init')
    /\ IF InitFails(m_init')
          THEN /\ m_ret' = InitReturn(m_init')
               /\ m_pc' = "returned"
               /\ UNCHANGED m_sens
          ELSE /\ m_sens' = m_sens + 1
               /\ m_pc' = "for"
               /\ UNCHANGED m_ret
    /\ UNCHANGED << exitStatus, m_open, m_initCalls, m_cbs, m_cbPhase >>
    /\ UNCHANGED << pubVars, callerVars, histVars, busVars, schedVars, timeVars, storeVars >>

\* air_quality_service.cpp 252, 292-294: the for-loop is over, the endless
\* bsec_iot_loop is entered
loop_call ==
    /\ m_pc = "for"
    /\ m_sens >= NUM_OF_SENS
    /\ m_pc' = "loop"
    /\ UNCHANGED << m_sens, m_init, m_ret, exitStatus, m_open, m_initCalls,
                    m_cbs, m_cbPhase, m_log >>
    /\ UNCHANGED << pubVars, callerVars, histVars, busVars, schedVars, timeVars, storeVars >>

\* main.cpp 145-147: start() returns nothing, main returns 0
main_return ==
    /\ m_pc = "returned"
    /\ exitStatus' = 0
    /\ m_pc' = "exited"
    /\ UNCHANGED << m_sens, m_init, m_ret, m_open, m_initCalls, m_cbs,
                    m_cbPhase, m_log >>
    /\ UNCHANGED << pubVars, callerVars, histVars, busVars, schedVars, timeVars, storeVars >>

\* ------------------------------------------------- clocks and sleeping
\* s_now is the clock now_ns() reads, CLOCK_MONOTONIC_RAW (precision_timing.h
\* 32); CLOCK_MONOTONIC, which frequency adjustments move against it, reads
\* s_now + mono_skew
Skews == {-200, 0, 200}

\* microseconds by which a completed wait returns after its end time
WakeLatencies == {0, 100}

\* target_us - now_us() of the sleep_until_us calls tried
SleepOffsets == {-100, 0, 300}

\* t_us of the bsec_sleep_n calls tried
SleepTimes == {0, 300}

\* clock_nanosleep(clock, TIMER_ABSTIME, target) returning 0: the values of
\* now_us() at return, for a clock reading now_us() + offset
WaitEnds(now, target_us, offset) ==
    IF now + offset >= target_us
       THEN {now}
       ELSE {target_us - offset + l : l \in WakeLatencies}

\* a wait cut short by a signal: the values of now_us() at return
Interrupted(now, end) ==
    IF now < end THEN {now, now + (end - now) \div 2} ELSE {}

\* what every sleep function records on entry
SleepEntry(kind) ==
    /\ sl_pc \in {"idle", "returned"}
    /\ sl_calls < MaxSleeps
    /\ sl_calls' = sl_calls + 1
    /\ sl_kind' = kind
    /\ sl_entry' = s_now
    /\ sl_result' = "none"
    /\ sl_intr' = 0
    /\ sl_io' = {}

\* precision_timing.h 71-73, 50-53: sleep_until_us(target_us) enters
\* sleep_until_ns and fills target_ts
sleep_until_us(target_us) ==
    /\ SleepEntry("sleep_until_us")
    /\ sl_target' = target_us
    /\ sl_pc' = "do"
    /\ UNCHANGED << sl_t_us, clockVars, stampVars >>
    /\ UNCHANGED << pubVars, callerVars, histVars, busVars, monVars, schedVars,
                    storeVars >>

\* precision_timing.h 57: clock_nanosleep(CLOCK_MONOTONIC_RAW, TIMER_ABSTIME)
clock_nanosleep_raw ==
    /\ sl_pc = "do"
    /\ sl_io' = sl_io \cup {"clock_nanosleep CLOCK_MONOTONIC_RAW TIMER_ABSTIME"}
    /\ IF ~raw_sleep
          THEN /\ sl_result' = "ENOTSUP"
               /\ sl_pc' = "fallback"
               /\ UNCHANGED << s_now, sl_intr >>
          ELSE /\ sl_pc' = "while"
               /\ \/ /\ s_now' \in WaitEnds(s_now, sl_target, 0)
                     /\ sl_result' = "0"
                     /\ UNCHANGED sl_intr
                  \/ /\ sl_intr < MaxInterrupts
                     /\ s_now' \in Interrupted(s_now, sl_target)
                     /\ sl_result' = "EINTR"
                     /\ sl_intr' = sl_intr + 1
    /\ UNCHANGED << sl_kind, sl_target, sl_t_us, sl_entry, sl_calls >>
    /\ UNCHANGED << clockVars, stampVars >>
    /\ UNCHANGED << last_call_time_us, scheduling_start_time_us,
                    timing_violation_count, total_cycles, s_calls, s_lastOp,
                    s_lastRet, s_lastDelay, s_prev, s_lateSinceReset,
                    s_resetSignals, s_logged >>
    /\ UNCHANGED << pubVars, callerVars, histVars, busVars, monVars, storeVars >>

\* precision_timing.h 58-61: result != 0 && result != EINTR, the wait is
\* issued on CLOCK_MONOTONIC
clock_nanosleep_mono ==
    /\ sl_pc = "fallback"
    /\ sl_io' = sl_io \cup {"clock_nanosleep CLOCK_MONOTONIC TIMER_ABSTIME"}
    /\ sl_pc' = "while"
    /\ \/ /\ s_now' \in WaitEnds(s_now, sl_target, mono_skew)
          /\ sl_result' = "0"
          /\ UNCHANGED sl_intr
       \/ /\ sl_intr < MaxInterrupts
          /\ s_now' \in Interrupted(s_now, sl_target - mono_skew)
          /\ sl_result' = "EINTR"
          /\ sl_intr' = sl_intr + 1
    /\ UNCHANGED << sl_kind, sl_target, sl_t_us, sl_entry, sl_calls >>
    /\ UNCHANGED << clockVars, stampVars >>
    /\ UNCHANGED << last_call_time_us, scheduling_start_time_us,
                    timing_violation_count, total_cycles, s_calls, s_lastOp,
                    s_lastRet, s_lastDelay, s_prev, s_lateSinceReset,
                    s_resetSignals, s_logged >>
    /\ UNCHANGED << pubVars, callerVars, histVars, busVars, monVars, storeVars >>

\* precision_timing.h 62: while (result == EINTR)
sleep_while ==
    /\ sl_pc = "while"
    /\ sl_pc' = IF sl_result = "EINTR" THEN "do" ELSE "returned"
    /\ UNCHANGED << sl_kind, sl_target, sl_t_us, sl_entry, sl_result, sl_intr,
                    sl_io, sl_calls >>
    /\ UNCHANGED << clockVars, stampVars, schedVars >>
    /\ UNCHANGED << pubVars, callerVars, histVars, busVars, monVars, storeVars >>

\* air_quality_service.cpp 107-111: bsec_sleep_n(t_us) fills req
bsec_sleep_n(t_us) ==
    /\ SleepEntry("bsec_sleep_n")
    /\ sl_t_us' = t_us
    /\ sl_pc' = "nanosleep"
    /\ UNCHANGED << sl_target, clockVars, stampVars >>
    /\ UNCHANGED << pubVars, callerVars, histVars, busVars, monVars, schedVars,
                    storeVars >>

\* air_quality_service.cpp 112: nanosleep(&req, NULL), its result unused
nanosleep_rel ==
    /\ sl_pc = "nanosleep"
    /\ sl_io' = sl_io \cup {"nanosleep"}
    /\ sl_pc' = "returned"
    /\ \/ /\ s_now' \in {s_now + sl_t_us + l : l \in WakeLatencies}
          /\ sl_result' = "0"
          /\ UNCHANGED sl_intr
       \/ /\ s_now' \in Interrupted(s_now, s_now + sl_t_us)
          /\ sl_result' = "EINTR"
          /\ sl_intr' = sl_intr + 1
    /\ UNCHANGED << sl_kind, sl_target, sl_t_us, sl_entry, sl_calls >>
    /\ UNCHANGED << clockVars, stampVars >>
    /\ UNCHANGED << last_call_time_us, scheduling_start_time_us,
                    timing_violation_count, total_cycles, s_calls, s_lastOp,
                    s_lastRet, s_lastDelay, s_prev, s_lateSinceReset,
                    s_resetSignals, s_logged >>
    /\ UNCHANGED << pubVars, callerVars, histVars, busVars, monVars, storeVars >>

\* air_quality_service.cpp 95: if (start_time_us == 0)
EpochUnset_always(epoch) == TRUE

EpochUnset(epoch) == epoch = 0

\* air_quality_service.cpp 90-97
bsec_get_timestamp_us ==
    /\ sl_pc \in {"idle", "returned"}
    /\ ts_calls < MaxStamps
    /\ ts_calls' = ts_calls + 1
    /\ ts_first' = IF ts_calls = 0 THEN s_now ELSE ts_first
    /\ start_time_us' = IF EpochUnset(start_time_us) THEN s_now
                                                     ELSE start_time_us
    /\ ts_ret' = s_now - start_time_us'
    /\ ts_prevRet' = ts_ret
    /\ UNCHANGED << clockVars, sleepVars, schedVars >>
    /\ UNCHANGED << pubVars, callerVars, histVars, busVars, monVars, storeVars >>

\* ------------------------------------- state file and configuration blob
\* air_quality_service.cpp 207: const uint8_t bsec_config_iaq[492]
CONFIG_SIZE == 492

\* n_buffer of the bsec_config_load calls tried
ConfigBuffers == {491, 492, 493}

\* values of the uint32_t n_serialized_state tried: up to the capacity, and
\* one beyond it
Lengths == 0..(BSEC_MAX_STATE_BLOB_SIZE + 1)

\* air_quality_service.cpp 38-43: sizeof(BSECSerializedState), counted in
\* cells: the length field, then BSEC_MAX_STATE_BLOB_SIZE bytes
RecordSize == 1 + BSEC_MAX_STATE_BLOB_SIZE

NoFile == [exists |-> FALSE, cells |-> << >>]

\* the contents a file found at startup can have: empty, cut after the length
\* field, or a whole record
FileContents ==
    {<< >>} \cup
    {<< n >> : n \in Lengths} \cup
    {<< n >> \o d : n \in Lengths, d \in ByteSeqs(BSEC_MAX_STATE_BLOB_SIZE)}

NoArg == [length |-> 0, n_buffer |-> 0]

\* air_quality_service.cpp 154: fs::exists(file_path)
FileExists_always(file) == TRUE

FileExists(file) == file.exists

\* air_quality_service.cpp 160-164: the BSECSerializedState read from the
\* cells the file delivered; what the file does not deliver stays as it was
\* on the stack (gn, g)
StateRead(cells, gn, g) ==
    [n_serialized_state |-> IF Len(cells) >= 1 THEN cells[1] ELSE gn,
     serialized_state |->
        SubSeq(cells, 2, Len(cells)) \o
        [i \in 1..(RecordSize - IF Len(cells) >= 1 THEN Len(cells) ELSE 1)
            |-> g]]

\* air_quality_service.cpp 165: the bytes memcpy copies to state_buffer; a
\* length beyond the array reads what follows it (g)
LoadedBytes_all(state, g) == state.serialized_state

LoadedBytes(state, g) ==
    Take(state.serialized_state \o << g >>, state.n_serialized_state)

\* air_quality_service.cpp 180-182: the record built from the arguments;
\* bytes beyond length are not initialised (g)
StateBuilt(buf, length, g) ==
    << length >> \o Take(buf, BSEC_MAX_STATE_BLOB_SIZE) \o
    [i \in 1..(BSEC_MAX_STATE_BLOB_SIZE
                  - Len(Take(buf, BSEC_MAX_STATE_BLOB_SIZE))) |-> g]

\* what every state/config callback records on entry
StoreEntry(op, arg, ioOk) ==
    /\ st_pc = "run"
    /\ st_calls < MaxStoreCalls
    /\ st_calls' = st_calls + 1
    /\ st_lastOp' = op
    /\ st_arg' = arg
    /\ st_ioOk' = ioOk

\* air_quality_service.cpp 148-167; openOk: the existing file can be opened
bsec_state_load(n_buffer, openOk) ==
    /\ FileExists(st_file) \/ openOk
    /\ StoreEntry("bsec_state_load", [NoArg EXCEPT !.n_buffer = n_buffer], openOk)
    /\ IF ~FileExists(st_file)
          THEN /\ st_ret' = 0
               /\ st_copied' = << >>
               /\ st_pc' = "run"
          ELSE LET cells == IF openOk /\ st_file.exists THEN st_file.cells
                                                        ELSE << >>
               IN
               \* gn, g: what the stack held, where the file does not reach
               \E gn \in IF Len(cells) < 1 THEN Lengths ELSE {0},
                  g \in IF Len(cells) < RecordSize \/ cells[1] >= RecordSize
                           THEN Bytes ELSE {0} :
               LET state == StateRead(cells, gn, g)
                   n == state.n_serialized_state
               IN  \/ /\ st_ret' = n
                      /\ st_copied' = LoadedBytes(state, g)
                      /\ st_pc' = "run"
                   \/ \* writing past state_buffer or reading past the array
                      /\ n > n_buffer \/ n > BSEC_MAX_STATE_BLOB_SIZE
                      /\ st_pc' = "crashed"
                      /\ UNCHANGED << st_ret, st_copied >>
    /\ UNCHANGED << st_dir, st_file, st_fileChanged, cfg_copied, st_saved >>
    /\ UNCHANGED << pubVars, callerVars, histVars, busVars, monVars, schedVars,
                    timeVars >>

\* air_quality_service.cpp 177-194; mkdirOk: the directory can be created,
\* openOk: the file can be opened for writing
bsec_state_save(buf, length, mkdirOk, openOk) ==
    /\ st_dir => mkdirOk
    /\ StoreEntry("bsec_state_save", [NoArg EXCEPT !.length = length], openOk)
    /\ \/ \* memcpy past serialized_state, or create_directory throws
          /\ length > BSEC_MAX_STATE_BLOB_SIZE \/ (~st_dir /\ ~mkdirOk)
          /\ st_pc' = "crashed"
          /\ st_fileChanged' = FALSE
          /\ UNCHANGED << st_dir, st_file, st_saved >>
       \/ /\ st_dir \/ mkdirOk
          /\ st_pc' = "run"
          /\ st_dir' = TRUE
          /\ IF openOk
                THEN /\ \E g \in IF length < BSEC_MAX_STATE_BLOB_SIZE
                                    THEN Bytes ELSE {0} :
                          st_file' = [exists |-> TRUE,
                                      cells |-> StateBuilt(buf, length, g)]
                     /\ st_saved' = [length |-> length, buf |-> buf]
                ELSE UNCHANGED << st_file, st_saved >>
          /\ st_fileChanged' = (st_file' # st_file)
    /\ UNCHANGED << st_ret, st_copied, cfg_copied >>
    /\ UNCHANGED << pubVars, callerVars, histVars, busVars, monVars, schedVars,
                    timeVars >>

\* air_quality_service.cpp 204-212
bsec_config_load(n_buffer) ==
    /\ StoreEntry("bsec_config_load", [NoArg EXCEPT !.n_buffer = n_buffer], TRUE)
    /\ \/ /\ cfg_copied' = n_buffer
          /\ st_ret' = CONFIG_SIZE
          /\ st_pc' = "run"
       \/ \* memcpy reading past bsec_config_iaq
          /\ n_buffer > CONFIG_SIZE
          /\ st_pc' = "crashed"
          /\ UNCHANGED << st_ret, cfg_copied >>
    /\ UNCHANGED << st_dir, st_file, st_fileChanged, st_copied, st_saved >>
    /\ UNCHANGED << pubVars, callerVars, histVars, busVars, monVars, schedVars,
                    timeVars >>

\* ------------------------------------------------------------ BSECScheduler
\* unnamed/part_000 90-91
TIMING_VIOLATION_THRESHOLD_US == 1000

MAX_TIMING_DRIFT_US == 10000

\* now - deadline (us) of the waitForNextCall calls tried: early, on time,
\* at and just over each threshold, and well over them
Delays == {-500, 0, 1000, 1001, 2000, 10000, 10001, 15000}

\* nanoseconds of the deadline below a whole microsecond
NsRemainders == {0, 999}

\* unnamed/part_000 109: delay_us > TIMING_VIOLATION_THRESHOLD_US
IsLate(delay_us) == delay_us > TIMING_VIOLATION_THRESHOLD_US

\* unnamed/part_000 115: delay_us > MAX_TIMING_DRIFT_US
IsSevere_atThreshold(delay_us) == delay_us >= MAX_TIMING_DRIFT_US

IsSevere(delay_us) == delay_us > MAX_TIMING_DRIFT_US

\* precision_timing.h 50-73: the values of now_us() sleep_until_us can return
\* at, interruptions retried: the wait ends on the clock it runs on
WakeTimes(now, target_us) ==
    WaitEnds(now, target_us, IF raw_sleep THEN 0 ELSE mono_skew)

\* the members, and the clock, when a call is entered
Stats == [count |-> timing_violation_count, cycles |-> total_cycles,
          start |-> scheduling_start_time_us, last |-> last_call_time_us,
          now |-> s_now]

\* what every BSECScheduler call records on entry
SchedEntry(op, logged) ==
    /\ s_calls < MaxCalls
    /\ s_calls' = s_calls + 1
    /\ s_lastOp' = op
    /\ s_prev' = Stats
    /\ s_logged' = logged

\* unnamed/part_000 103-133
waitForNextCall(next_call_ns) ==
    LET next_call_us == next_call_ns \div 1000
        delay_us == s_now - next_call_us
    IN  /\ SchedEntry("waitForNextCall", {})
        /\ s_lastDelay' = delay_us
        /\ s_lateSinceReset' = IF s_now - next_call_us > 1000
                                  THEN s_lateSinceReset + 1
                                  ELSE s_lateSinceReset
        /\ IF IsLate(delay_us)
              THEN /\ timing_violation_count' = timing_violation_count + 1
                   /\ s_lastRet' = ~IsSevere(delay_us)
                   /\ UNCHANGED s_now
              ELSE /\ s_now' \in WakeTimes(s_now, next_call_us)
                   /\ s_lastRet' = TRUE
                   /\ UNCHANGED timing_violation_count
        /\ s_resetSignals' = IF s_lastRet' THEN s_resetSignals
                                           ELSE s_resetSignals + 1
        /\ UNCHANGED << last_call_time_us, scheduling_start_time_us,
                        total_cycles >>
        /\ UNCHANGED << pubVars, callerVars, histVars, busVars, monVars, timeVars, storeVars >>

\* unnamed/part_000 139-147
getCurrentTimestamp ==
    /\ SchedEntry("getCurrentTimestamp", {})
    /\ last_call_time_us' = s_now
    /\ total_cycles' = total_cycles + 1
    /\ UNCHANGED << scheduling_start_time_us, timing_violation_count, s_now,
                    s_lastRet, s_lastDelay, s_lateSinceReset, s_resetSignals >>
    /\ UNCHANGED << pubVars, callerVars, histVars, busVars, monVars, timeVars, storeVars >>

\* unnamed/part_000 152-163: log lines only. The rate is
\* (float)timing_violation_count / total_cycles * 100.0f: with no cycle
\* counted the quotient is NaN (0 / 0), which is not above 5, or infinite,
\* which is; otherwise it exceeds 5.0f exactly when 100 * violations exceeds
\* 5 * cycles (at equality the product rounds to 5.0f)
logSchedulingStats ==
    /\ SchedEntry("logSchedulingStats",
            IF total_cycles % 100 # 0
               THEN {}
               ELSE IF \/ total_cycles = 0 /\ timing_violation_count > 0
                       \/ total_cycles > 0 /\
                             100 * timing_violation_count > 5 * total_cycles
                       THEN {"info", "warn"}
                       ELSE {"info"})
    /\ UNCHANGED << last_call_time_us, scheduling_start_time_us,
                    timing_violation_count, total_cycles, s_now, s_lastRet,
                    s_lastDelay, s_lateSinceReset, s_resetSignals >>
    /\ UNCHANGED << pubVars, callerVars, histVars, busVars, monVars, timeVars, storeVars >>

\* unnamed/part_000 168-173
resetStats ==
    /\ SchedEntry("resetStats", {})
    /\ timing_violation_count' = 0
    /\ total_cycles' = 0
    /\ scheduling_start_time_us' = s_now
    /\ s_lateSinceReset' = 0
    /\ UNCHANGED << last_call_time_us, s_now, s_lastRet, s_lastDelay,
                    s_resetSignals >>
    /\ UNCHANGED << pubVars, callerVars, histVars, busVars, monVars, timeVars, storeVars >>

\* ---------------------------------------------------------- initial states
\* nothing has run yet
HistInit ==
    /\ okOutputs = 0
    /\ subCalls = 0
    /\ nUpdates = 0
    /\ updCount = NoneYet
    /\ lastVal = NoneYet
    /\ pendLatest = NoneYet
    /\ pendOver = NoValues
    /\ snapLatest = NoneYet
    /\ snapOver = NoValues
    /\ known = {}
    /\ cycleCalls = << >>
    /\ cycleFailed = FALSE
    /\ afterFail = FALSE
    /\ prevFailed = FALSE
    /\ stopDone = FALSE
    /\ sleepsAfterStop = 0
    /\ accesses = {}

\* homebridge_service.cpp 29-32: the constructed service, no thread yet
ServiceInit ==
    /\ config_url \in Urls
    /\ running = FALSE
    /\ sensors = EmptyMap
    /\ next_sensors = EmptyMap
    /\ mutex = "none"
    /\ pub_pc = "none"
    /\ todo = {}
    /\ has_subscriber = FALSE
    /\ nThreads = 0
    /\ upd = NoUpdate
    /\ upd_ret = "run"
    /\ cb_idx = 1
    /\ sample = NoSample
    /\ outputs = 0

\* simple_i2c_bus.cpp 31-36: the constructed transport
BusInit ==
    /\ busfd = -1
    /\ openFds = {}
    /\ b_lastOp = "none"
    /\ b_lastRet = 0
    /\ b_failed = FALSE
    /\ b_opAfterFail = FALSE
    /\ b_wasOpen = FALSE
    /\ b_lastLen = 0
    /\ b_lastIo = << >>
    /\ b_prevFds = {}
    /\ b_args = [reg |-> 0, payload |-> << >>]
    /\ b_prev = [written |-> FALSE, args |-> [reg |-> 0, payload |-> << >>]]
    /\ b_data = << >>
    /\ b_crashed = FALSE
    /\ dev_mem = {}

\* the main thread at position pc, monitor() not yet entered
MonInit(pc) ==
    /\ m_pc = pc
    /\ m_sens = 0
    /\ m_init = InitOk
    /\ m_ret = 0
    /\ exitStatus = -1
    /\ m_open = "none"
    /\ m_initCalls = 0
    /\ m_cbs = {}
    /\ m_cbPhase = "none"
    /\ m_log = {}

\* unnamed/part_000 93-96: the constructed scheduler, at some clock value
SchedInit ==
    /\ last_call_time_us = 0
    /\ scheduling_start_time_us = 0
    /\ timing_violation_count = 0
    /\ total_cycles = 0
    /\ s_now = 100000
    /\ s_calls = 0
    /\ s_lastOp = "none"
    /\ s_lastRet = TRUE
    /\ s_lastDelay = 0
    /\ s_prev = Stats
    /\ s_lateSinceReset = 0
    /\ s_resetSignals = 0
    /\ s_logged = {}

\* no sleep, timestamp, state or config callback has run
\* (air_quality_service.cpp 92: static int64_t start_time_us = 0);
\* anyClock: the kernel and the clock adjustment are those the process meets,
\* otherwise no adjustment has moved CLOCK_MONOTONIC yet;
\* anyFile: the directory holds what an earlier run, or anything else, left,
\* otherwise neither the directory nor the state file exists
CallbacksInit(anyClock, anyFile) ==
    /\ raw_sleep \in IF anyClock THEN BOOLEAN ELSE {FALSE}
    /\ mono_skew \in IF anyClock THEN Skews ELSE {0}
    /\ sl_pc = "idle"
    /\ sl_kind = "none"
    /\ sl_target = 0
    /\ sl_t_us = 0
    /\ sl_entry = 0
    /\ sl_result = "none"
    /\ sl_intr = 0
    /\ sl_io = {}
    /\ sl_calls = 0
    /\ start_time_us = 0
    /\ ts_calls = 0
    /\ ts_first = 0
    /\ ts_ret = 0
    /\ ts_prevRet = 0
    /\ st_dir \in IF anyFile THEN BOOLEAN ELSE {FALSE}
    /\ st_file \in {NoFile} \cup
                   (IF anyFile /\ st_dir
                       THEN {[exists |-> TRUE, cells |-> c] : c \in FileContents}
                       ELSE {})
    /\ st_fileChanged = FALSE
    /\ st_pc = "run"
    /\ st_calls = 0
    /\ st_lastOp = "none"
    /\ st_arg = NoArg
    /\ st_ioOk = TRUE
    /\ st_ret = 0
    /\ st_copied = << >>
    /\ cfg_copied = 0
    /\ st_saved = [length |-> -1, buf |-> << >>]

Init ==
    /\ ServiceInit
    /\ has_service = TRUE
    /\ cl_pc = "init"
    /\ HistInit
    /\ BusInit
    /\ MonInit("off")
    /\ SchedInit
    /\ CallbacksInit(FALSE, FALSE)

MainInit ==
    /\ ServiceInit
    /\ has_service = FALSE
    /\ cl_pc = "main"
    /\ HistInit
    /\ BusInit
    /\ MonInit("off")
    /\ SchedInit
    /\ CallbacksInit(FALSE, FALSE)

BusSpecInit ==
    /\ ServiceInit
    /\ has_service = FALSE
    /\ cl_pc = "bus"
    /\ HistInit
    /\ BusInit
    /\ MonInit("off")
    /\ SchedInit
    /\ CallbacksInit(FALSE, FALSE)

MonitorInit ==
    /\ ServiceInit
    /\ has_service = FALSE
    /\ cl_pc = "monitor"
    /\ HistInit
    /\ BusInit
    /\ MonInit("main")
    /\ SchedInit
    /\ CallbacksInit(FALSE, FALSE)

SchedSpecInit ==
    /\ ServiceInit
    /\ has_service = FALSE
    /\ cl_pc = "sched"
    /\ HistInit
    /\ BusInit
    /\ MonInit("off")
    /\ SchedInit
    /\ CallbacksInit(TRUE, FALSE)

TimeSpecInit ==
    /\ ServiceInit
    /\ has_service = FALSE
    /\ cl_pc = "time"
    /\ HistInit
    /\ BusInit
    /\ MonInit("off")
    /\ SchedInit
    /\ CallbacksInit(TRUE, FALSE)

StoreSpecInit ==
    /\ ServiceInit
    /\ has_service = FALSE
    /\ cl_pc = "store"
    /\ HistInit
    /\ BusInit
    /\ MonInit("off")
    /\ SchedInit
    /\ CallbacksInit(FALSE, TRUE)

\* ------------------------------------------------------------ next states
Publisher ==
    \/ thread_begin
    \/ loop_check
    \/ merge_lock
    \/ merge_copy
    \/ merge_clear
    \/ merge_unlock
    \/ publish_request
    \/ \E outcome \in Outcomes : publish_response(outcome)
    \/ loop_sleep
    \/ sleep_return

Next ==
    \/ start
    \/ \E m \in ClientMetrics, v \in Values : update_call(m, v)
    \/ update_lock
    \/ update_store
    \/ update_unlock
    \/ stop
    \/ destructor_stop
    \/ destructor_join
    \/ Publisher
    \/ publish_local
    \/ thread_end

\* main() and the publishing thread; what cpr::Get answers never reaches
\* main(), the thread catches it (homebridge_service.cpp 91-95), so the
\* responses tried here are the 200 ones
MainNext ==
    \/ main_create_service
    \/ \E status \in Statuses : bsec_output_ready(status)
    \/ callback_update
    \/ callback_return
    \/ update_lock
    \/ update_store
    \/ update_unlock
    \/ thread_begin
    \/ loop_check
    \/ merge_lock
    \/ merge_copy
    \/ merge_clear
    \/ merge_unlock
    \/ publish_request
    \/ publish_response("200")
    \/ loop_sleep
    \/ sleep_return

\* a client of both services: it starts and stops the publisher, starts it
\* again, registers the subscriber or not, and lets the engine report outputs;
\* of the publishing thread, the steps that read or write running
ClientNext ==
    \/ start
    \/ start_again
    \/ stop
    \/ setOnAirQualityChange
    \/ \E status \in Statuses : bsec_output_ready(status)
    \/ callback_update
    \/ callback_return
    \/ update_lock
    \/ update_store
    \/ update_unlock
    \/ thread_begin
    \/ loop_check
    \/ thread_end

BusNext ==
    \/ \E openOk \in BOOLEAN, ioctlOk \in BOOLEAN : openI2CBus(openOk, ioctlOk)
    \/ closeI2CBus
    \/ \E n \in DataLens \cup {-1} : writeData(0, [i \in 1..n |-> 0], n)
    \/ \E n \in DataLens \cup {128} : readData(0, n)
    \/ \E n \in DataLens \cup {-1} :
          writeI2CRegister(0, [i \in 1..n |-> 0], n)
    \/ \E n \in DataLens \cup {128} : readI2CRegister(0, n)

\* a caller writing registers and reading them back: register addresses,
\* payload lengths up to the largest accepted, and payloads that differ
RoundTripNext ==
    \/ \E openOk \in BOOLEAN : openI2CBus(openOk, TRUE)
    \/ \E reg_addr \in {0, 1}, n \in {0, I2C_BUS_MAX_BUFFER_SIZE - 1} :
          \E payload \in ByteSeqs(n) : writeData(reg_addr, payload, n)
    \/ \E reg_addr \in {0, 1}, n \in {0, I2C_BUS_MAX_BUFFER_SIZE - 1} :
          readData(reg_addr, n)

MonitorNext ==
    \/ start_call
    \/ \E openOk \in BOOLEAN, ioctlOk \in BOOLEAN : monitor_open(openOk, ioctlOk)
    \/ init_call
    \/ \E cb \in InitCallbacks \cup LoopCallbacks : engine_callback(cb)
    \/ \E n \in DataLens : engine_register_write(n)
    \/ \E n \in DataLens : engine_register_read(n)
    \/ \E bme \in Bme68xStatuses, bsec \in BsecStatuses : init_return(bme, bsec)
    \/ loop_call
    \/ main_return

SchedNext ==
    \/ \E d \in Delays, r \in NsRemainders :
          waitForNextCall((s_now - d) * 1000 + r)
    \/ getCurrentTimestamp
    \/ logSchedulingStats
    \/ resetStats

TimeNext ==
    \/ \E d \in SleepOffsets : sleep_until_us(s_now + d)
    \/ clock_nanosleep_raw
    \/ clock_nanosleep_mono
    \/ sleep_while
    \/ \E t \in SleepTimes : bsec_sleep_n(t)
    \/ nanosleep_rel
    \/ bsec_get_timestamp_us

StoreNext ==
    \/ \E n \in Lengths, openOk \in BOOLEAN : bsec_state_load(n, openOk)
    \/ \E length \in Lengths, mkdirOk \in BOOLEAN, openOk \in BOOLEAN :
          \E buf \in ByteSeqs(length) :
             bsec_state_save(buf, length, mkdirOk, openOk)
    \/ \E n \in ConfigBuffers : bsec_config_load(n)

Spec == Init /\ [][Next]_vars

MainSpec == MainInit /\ [][MainNext]_vars

ClientSpec == Init /\ [][ClientNext]_vars

BusSpec == BusSpecInit /\ [][BusNext]_vars

RoundTripSpec == BusSpecInit /\ [][RoundTripNext]_vars

MonitorSpec == MonitorInit /\ [][MonitorNext]_vars

SchedSpec == SchedSpecInit /\ [][SchedNext]_vars

TimeSpec == TimeSpecInit /\ [][TimeNext]_vars

StoreSpec == StoreSpecInit /\ [][StoreNext]_vars

\* ------------------------------------------------------------ properties
CalledIds == {cycleCalls[i].id : i \in 1..Len(cycleCalls)}

\* C1: when a metric x was updated more than once before a merge, the flush
\* cycle of that merge makes exactly one publish call for x, and the call
\* carries the last value written; no overwritten value is published
C1_LatestWriteWins ==
    \A x \in AllMetrics :
        snapOver[x] # {} =>
            /\ \A i \in CallsFor(x) : cycleCalls[i].value = snapLatest[x]
            /\ Cardinality(CallsFor(x)) <= 1
            /\ pub_pc = "sleep" => Cardinality(CallsFor(x)) = 1

C1_Witness ==
    /\ pub_pc = "sleep"
    /\ \E x \in AllMetrics :
        /\ snapOver[x] # {}
        /\ snapLatest[x] \notin snapOver[x]
        /\ CallsFor(x) # {}

\* C2 as claimed: a flush cycle publishes only metrics that were updated
\* since the previous merge
C2_OnlyUpdatedPublished ==
    \A i \in 1..Len(cycleCalls) : snapLatest[cycleCalls[i].id] # 0

\* C2 as amended: every flush cycle publishes every metric of the last-known
\* map (every metric merged so far) exactly once with the value the map
\* holds, whether or not it was updated since the previous merge
C2_RepublishesKnown ==
    pub_pc = "sleep" =>
        /\ \A m \in known :
            /\ Cardinality(CallsFor(m)) = 1
            /\ \A i \in CallsFor(m) : cycleCalls[i].value = sensors[m]
        /\ CalledIds = known

C2_Witness ==
    /\ pub_pc = "sleep"
    /\ \E m \in known : snapLatest[m] = 0 /\ CallsFor(m) # {}

\* C3: once stop() has returned, the publishing thread begins at most one
\* more interval sleep before it leaves its loop
C3_StopBounded == sleepsAfterStop <= 1

\* C4: no completed update is lost: the last value stored for a metric is
\* either still pending in next_sensors or, once merged, the value sensors
\* holds; and next_sensors is empty when the merge releases the mutex
C4_NoLostUpdate ==
    /\ \A m \in AllMetrics :
        lastVal[m] # 0 =>
            IF m \in DOMAIN next_sensors
               THEN next_sensors[m] = lastVal[m]
               ELSE m \in DOMAIN sensors /\ sensors[m] = lastVal[m]
    /\ pub_pc = "unlock" => next_sensors = EmptyMap

C4_Witness ==
    /\ pub_pc = "unlock"
    /\ cl_pc = "upd_lock"
    /\ \E m \in AllMetrics : snapLatest[m] # 0 /\ sensors[m] = lastVal[m]

\* C5: a failed publish (status other than 200, or an exception) does not end
\* the publishing thread, and the cycle still attempts every other metric of
\* the last-known map
C5_FailureIsolated ==
    /\ pub_pc # "terminated"
    /\ pub_pc \in {"foreach", "inflight"} => CalledIds \cup todo = DOMAIN sensors
    /\ pub_pc = "sleep" => CalledIds = DOMAIN sensors

C5_Witness ==
    /\ pub_pc = "sleep"
    /\ cycleFailed
    /\ afterFail
    /\ prevFailed

\* C6: the publishing thread owns the mutex only between its lock and unlock
\* around the merge, so update() can take the mutex whenever the thread is
\* inside a request or its interval sleep
C6_LockOnlyDuringMerge ==
    /\ mutex = "pub" => pub_pc \in {"merge", "clear", "unlock"}
    /\ (pub_pc \in {"inflight", "sleep"} /\ cl_pc = "upd_lock") => ENABLED update_lock

C6_Witness ==
    /\ pub_pc = "inflight"
    /\ cl_pc = "upd_unlock"
    /\ mutex = "caller"

\* C7: next_sensors is the only member accessed by both threads, and every
\* access to a member accessed by both threads is made with the mutex held
C7_OnlyPendingMapShared ==
    LET shared == {v \in {a.var : a \in accesses} :
                     \E a, b \in accesses :
                        a.var = v /\ b.var = v /\ a.thread # b.thread}
    IN /\ shared \subseteq {"next_sensors"}
       /\ \A a \in accesses : a.var \in shared => a.locked

\* C8: with an empty URL no flush cycle makes a network request, and after the
\* cycle the last-known map holds the value that was pending at its merge
C8_LocalOnly ==
    config_url = "" =>
        /\ pub_pc # "inflight"
        /\ \A i \in 1..Len(cycleCalls) : ~cycleCalls[i].net
        /\ pub_pc = "sleep" =>
             \A m \in AllMetrics :
                snapLatest[m] # 0 => m \in DOMAIN sensors /\ sensors[m] = snapLatest[m]

C8_Witness ==
    /\ config_url = ""
    /\ pub_pc = "sleep"
    /\ \E m \in AllMetrics : snapLatest[m] # 0 /\ CallsFor(m) # {}

\* C9 as claimed: whatever the URL, between callbacks every metric name has
\* received exactly one update() per output cycle reported with BSEC_OK
C9_EverySampleReachesPublisher ==
    cl_pc = "run" => \A m \in AllMetrics : updCount[m] = okOutputs

\* C9 as amended: with a non-empty URL every metric name has received exactly
\* one update() per output cycle reported with BSEC_OK; with an empty URL
\* main() creates no publisher and no update() is made
C9_ReachesPublisherIfConfigured ==
    /\ cl_pc # "main" => (has_service <=> config_url # "")
    /\ cl_pc = "run" =>
         \A m \in AllMetrics :
            updCount[m] = IF config_url # "" THEN okOutputs ELSE 0

C9_Witness ==
    /\ cl_pc = "run"
    /\ config_url # ""
    /\ okOutputs = MaxSamples
    /\ \A m \in AllMetrics : updCount[m] = MaxSamples

\* C10: after a writeData or readData that failed on the device the transport
\* is closed, and a writeData or readData issued before the next successful
\* openI2CBus returns a negative value
C10_ClosedAfterFailure ==
    /\ b_failed => ~isOpened
    /\ b_opAfterFail => b_lastRet < 0

C10_Witness ==
    /\ b_opAfterFail
    /\ b_lastOp \in {"writeData", "readData"}
    /\ b_lastRet < 0
    /\ ~isOpened

\* the system calls of the last transport call, as a set
IoCalls == {b_lastIo[i] : i \in 1..Len(b_lastIo)}

RegisterOps == {"writeData", "readData", "writeI2CRegister", "readI2CRegister"}

\* C11: a register operation (writeData, readData, writeI2CRegister,
\* readI2CRegister) issued while the transport is closed returns failure and
\* issues no system call on the device descriptor
C11_ClosedOpsFailWithoutIo ==
    (b_lastOp \in RegisterOps /\ ~b_wasOpen) =>
        (b_lastRet < 0 /\ b_lastIo = << >>)

\* C12: a write whose data_len + 1 exceeds 64 returns failure and no write()
\* is issued on the device
C12_OversizeWriteRejected ==
    (b_lastOp \in {"writeData", "writeI2CRegister"} /\ b_lastLen + 1 > 64) =>
        (b_lastRet < 0 /\ "write" \notin IoCalls)

C12_Witness ==
    /\ b_lastOp = "writeData"
    /\ b_wasOpen
    /\ b_lastLen = 64
    /\ b_lastRet < 0

\* C13: after a failed openI2CBus the transport is closed, whatever its state
\* before, and the failed call left no descriptor of its own open
C13_FailedOpenLeavesClosed ==
    (b_lastOp = "openI2CBus" /\ b_lastRet < 0) =>
        (~isOpened /\ openFds \subseteq b_prevFds)

\* C14: when the bus open of monitor() fails, monitor() returns failure with
\* no bsec_iot_init call, no acquisition loop and no callback invoked; a
\* bsec_iot_init call happens only after a successful open
C14_OpenFailureAbortsBeforeEngine ==
    /\ m_open = "failed" =>
          /\ m_pc \in {"returned", "exited"}
          /\ m_ret < 0
          /\ m_initCalls = 0
          /\ m_cbs = {}
    /\ (m_initCalls > 0 \/ m_pc \in {"in_init", "loop"}) => m_open = "ok"

C14_Witness ==
    /\ m_open = "failed"
    /\ m_pc = "returned"
    /\ b_lastOp = "openI2CBus"

\* C15: when bsec_iot_init reports a sensor-driver failure or a non-OK
\* library status, monitor() returns a non-zero value and bsec_iot_loop is not
\* entered; the sample-rate message is logged for the mismatch status only,
\* and the message of the sensor-driver failure only for that failure
C15_InitFailureIsFatal ==
    /\ (m_init.bme68x_status # "BME68X_OK" \/ m_init.bsec_status # "BSEC_OK") =>
          (m_pc \in {"returned", "exited"} /\ m_ret # 0)
    /\ "The sample rate doesn't match the config" \in m_log <=>
          /\ m_init.bme68x_status = "BME68X_OK"
          /\ m_init.bsec_status = "BSEC_W_SU_SAMPLERATEMISMATCH"
    /\ "Could not intialize BME68x" \in m_log <=>
          m_init.bme68x_status # "BME68X_OK"

C15_Witness ==
    /\ m_init.bme68x_status = "BME68X_OK"
    /\ m_init.bsec_status = "BSEC_W_SU_SAMPLERATEMISMATCH"
    /\ m_pc = "returned"
    /\ m_initCalls = 2

C17_ClosedTransportIsReopened ==
    (m_cbPhase = "loop" /\ b_lastOp \in {"writeI2CRegister", "readI2CRegister"}
        /\ ~b_wasOpen) =>
        ("open" \in IoCalls \/ m_pc \in {"returned", "exited"})

\* C18: the subscriber has been called once per output cycle reported with
\* BSEC_OK and never for another status; while it runs it holds the sample
\* built from the outputs of that cycle, and no sample exists otherwise
C18_OneSamplePerOkOutput ==
    /\ subCalls = okOutputs
    /\ cl_pc \notin {"main", "run"} =>
          LET o == Outputs(outputs) IN
          /\ sample.iaq = o.iaq
          /\ sample.iaq_accuracy = o.iaq_accuracy
          /\ sample.temperature = o.temperature
          /\ sample.pressure = o.raw_pressure
          /\ sample.humidity = o.humidity
          /\ sample.co2 = o.co2_equivalent
          /\ sample.bVOC = o.breath_voc_equivalent
          /\ sample.gas_percentage = o.gas_percentage
    /\ cl_pc \in {"main", "run"} => sample = NoSample

C18_Witness ==
    /\ cl_pc = "callback"
    /\ outputs = 2
    /\ okOutputs = 1
    /\ subCalls = 1

\* C19: a waitForNextCall entered more than 1000 us and at most 10000 us
\* late returns true, adds exactly one to the violation counter and resets
\* no statistic; the counter equals the number of late calls since the last
\* resetStats
C19_SoftViolationCounted ==
    /\ (s_lastOp = "waitForNextCall" /\ s_lastDelay > 1000
            /\ s_lastDelay <= 10000) =>
          /\ s_lastRet = TRUE
          /\ timing_violation_count = s_prev.count + 1
          /\ total_cycles = s_prev.cycles
          /\ scheduling_start_time_us = s_prev.start
          /\ last_call_time_us = s_prev.last
    /\ timing_violation_count = s_lateSinceReset

C19_Witness ==
    /\ s_lastOp = "waitForNextCall"
    /\ s_lastDelay = 2000
    /\ s_calls = MaxCalls
    /\ total_cycles > 0
    /\ timing_violation_count = 1

\* C20: a waitForNextCall entered more than 10000 us late returns false and
\* leaves the violation counter at zero
C20_SevereDriftClearsStats ==
    (s_lastOp = "waitForNextCall" /\ s_lastDelay > 10000) =>
        (s_lastRet = FALSE /\ timing_violation_count = 0)

\* C21: a waitForNextCall entered at most 1000 us after its deadline returns
\* true with the violation counter unchanged, and now_us() has reached the
\* deadline when it returns
C21_OnTimeWaitsForDeadline ==
    (s_lastOp = "waitForNextCall" /\ s_lastDelay <= 1000) =>
        /\ s_lastRet = TRUE
        /\ timing_violation_count = s_prev.count
        /\ s_now >= s_prev.now - s_lastDelay

\* C22: sleep_until_us(t) has returned only when now_us() >= t, never on an
\* interrupted wait, and without the clock moving when now_us() >= t held on
\* entry
C22_SleepUntilReachesDeadline ==
    (sl_pc = "returned" /\ sl_kind = "sleep_until_us") =>
        /\ s_now >= sl_target
        /\ sl_result # "EINTR"
        /\ sl_entry >= sl_target => s_now = sl_entry

\* C23: bsec_sleep_n(t_us) has returned only after t_us microseconds, and
\* has waited on an absolute deadline only
C23_EngineSleepIsAbsolute ==
    (sl_pc = "returned" /\ sl_kind = "bsec_sleep_n") =>
        /\ s_now - sl_entry >= sl_t_us
        /\ sl_io \subseteq
              {"clock_nanosleep CLOCK_MONOTONIC_RAW TIMER_ABSTIME",
               "clock_nanosleep CLOCK_MONOTONIC TIMER_ABSTIME"}

\* C24: after bsec_state_save(buf, L) with L <= BSEC_MAX_STATE_BLOB_SIZE has
\* written the file, a bsec_state_load that opens it into a buffer of at
\* least L bytes returns L and copies exactly the first L bytes of buf
C24_SaveThenLoadRoundTrip ==
    (/\ st_lastOp = "bsec_state_load"
     /\ st_saved.length >= 0
     /\ st_saved.length <= BSEC_MAX_STATE_BLOB_SIZE
     /\ st_ioOk
     /\ st_arg.n_buffer >= st_saved.length) =>
        /\ st_pc = "run"
        /\ st_ret = st_saved.length
        /\ st_copied = Take(st_saved.buf, st_saved.length)

C24_Witness ==
    /\ st_lastOp = "bsec_state_load"
    /\ st_calls = 2
    /\ st_ioOk
    /\ st_fileChanged
    /\ st_saved.length = 1
    /\ st_saved.buf = << 0 >>
    /\ st_file.cells = << 1, 0, 1 >>
    /\ st_ret = 1
    /\ st_copied = << 0 >>

\* C25: a bsec_state_save with a length above BSEC_MAX_STATE_BLOB_SIZE
\* returns with the state file as it was
C25_OversizeSaveRejected ==
    (st_lastOp = "bsec_state_save"
        /\ st_arg.length > BSEC_MAX_STATE_BLOB_SIZE) =>
        (st_pc = "run" /\ ~st_fileChanged)

\* C26: a bsec_state_load with no state file returns 0, copies nothing and
\* lets the program run on
C26_NoFileLoadsNothing ==
    (st_lastOp = "bsec_state_load" /\ ~st_file.exists) =>
        (st_ret = 0 /\ st_copied = << >> /\ st_pc = "run")

C26_Witness ==
    /\ st_lastOp = "bsec_state_load"
    /\ ~st_file.exists
    /\ st_calls = 2
    /\ cfg_copied = CONFIG_SIZE
    /\ st_arg.n_buffer = BSEC_MAX_STATE_BLOB_SIZE
    /\ st_ret = 0

\* C27: a bsec_state_load of a state file that cannot be opened, or that
\* holds less than a whole record, returns 0 and copies nothing
C27_UnreadableFileLoadsNothing ==
    (/\ st_lastOp = "bsec_state_load"
     /\ st_pc = "run"
     /\ st_file.exists
     /\ ~st_ioOk \/ Len(st_file.cells) < RecordSize) =>
        (st_ret = 0 /\ st_copied = << >>)

\* C28: a bsec_state_load that returns has returned at most
\* BSEC_MAX_STATE_BLOB_SIZE and copied at most min(n_buffer,
\* BSEC_MAX_STATE_BLOB_SIZE) bytes
C28_LoadedLengthWithinCapacity ==
    (st_lastOp = "bsec_state_load" /\ st_pc = "run") =>
        /\ st_ret <= BSEC_MAX_STATE_BLOB_SIZE
        /\ Len(st_copied) <= st_arg.n_buffer
        /\ Len(st_copied) <= BSEC_MAX_STATE_BLOB_SIZE

\* C29: once bsec_get_timestamp_us has been called, its epoch is the clock
\* value of the first call; the first call returned 0 and every call returned
\* a value that is not negative and not below the one before
C29_TimestampEpochFixed ==
    ts_calls > 0 =>
        /\ start_time_us = ts_first
        /\ ts_calls = 1 => ts_ret = 0
        /\ ts_ret >= 0
        /\ ts_ret >= ts_prevRet

C29_Witness ==
    /\ ts_calls = 3
    /\ ts_prevRet > 0
    /\ ts_ret > ts_prevRet
    /\ s_now = ts_first + ts_ret

\* C30: a bsec_config_load that returns has returned the number of bytes it
\* copied, which is at most min(n_buffer, 492)
C30_ConfigLoadReturnsCopied ==
    (st_lastOp = "bsec_config_load" /\ st_pc = "run") =>
        /\ st_ret = cfg_copied
        /\ cfg_copied <= st_arg.n_buffer
        /\ cfg_copied <= CONFIG_SIZE

\* C31: a readData that succeeded right after a writeData that wrote, on the
\* same register and for as many bytes as the payload had, delivered exactly
\* the payload, and the transport is open afterwards
C31_WriteThenReadRoundTrips ==
    ( /\ b_lastOp = "readData"
      /\ b_lastIo = << "i2c_smbus_write_byte", "read" >>
      /\ b_prev.written
      /\ b_prev.args.reg = b_args.reg
      /\ Len(b_prev.args.payload) = b_lastLen ) =>
        /\ b_data = b_prev.args.payload
        /\ isOpened

C31_Witness ==
    /\ b_lastOp = "readData"
    /\ b_lastIo = << "i2c_smbus_write_byte", "read" >>
    /\ b_prev.written
    /\ b_prev.args.reg = 1
    /\ b_args.reg = 1
    /\ b_lastLen = I2C_BUS_MAX_BUFFER_SIZE - 1
    /\ Len(b_data) = I2C_BUS_MAX_BUFFER_SIZE - 1
    /\ b_data = b_prev.args.payload
    /\ b_data[1] = 1
    /\ isOpened

\* C32: after closeI2CBus the transport is not open, whatever it was before,
\* and a closeI2CBus on a transport that was not open changed no descriptor
C32_CloseIsIdempotent ==
    b_lastOp = "closeI2CBus" =>
        /\ ~isOpened
        /\ ~b_wasOpen => openFds = b_prevFds

C32_Witness ==
    /\ b_lastOp = "closeI2CBus"
    /\ ~b_wasOpen
    /\ ~isOpened
    /\ openFds # {}
    /\ openFds = b_prevFds

\* C33: logSchedulingStats logs the summary exactly when the cycles counted
\* are a positive multiple of 100, and the warning exactly when it logs the
\* summary and 100 * violations > 5 * cycles
C33_SummaryEveryHundredCycles ==
    s_lastOp = "logSchedulingStats" =>
        /\ "info" \in s_logged <=>
              (total_cycles > 0 /\ total_cycles % 100 = 0)
        /\ "warn" \in s_logged <=>
              ("info" \in s_logged /\
               100 * timing_violation_count > 5 * total_cycles)

\* C34: a writeData whose data_len + 1 exceeds 64 leaves isOpened() as it was
\* before the call
C34_RejectedWriteKeepsHandle ==
    (b_lastOp = "writeData" /\ b_lastLen + 1 > I2C_BUS_MAX_BUFFER_SIZE) =>
        (isOpened <=> b_wasOpen)

\* C37: a register callback that returns reports BME68X_OK exactly when the
\* transport operation returned a result that is not negative, whatever the
\* byte count
C37_StatusFollowsTransportResult ==
    (b_lastOp \in {"writeI2CRegister", "readI2CRegister"} /\ ~b_crashed) =>
        (CallbackStatus(b_lastRet) = "BME68X_OK" <=>
            b_lastIo \in {<< "write" >>, << "i2c_smbus_write_byte", "read" >>})

\* C38: a writeData whose data_len + 1 truly exceeds 64 (data_len above 63,
\* or 2^32 - 1) is rejected: it returns failure, issues no write() and copies
\* nothing beyond the transfer buffer
C38_EveryOversizeWriteRejected ==
    (b_lastOp = "writeData" /\ (b_lastLen > 63 \/ b_lastLen < 0)) =>
        /\ ~b_crashed
        /\ b_lastRet < 0
        /\ "write" \notin IoCalls

\* C39: every descriptor that is open is the transport's current handle
C39_AtMostOneDescriptor ==
    openFds \subseteq {busfd}

\* C35: start() has created at most one publishing thread, whatever the
\* publisher's thread and stop() did before a second start()
C35_AtMostOnePublishThread ==
    nThreads <= 1

\* C36: an output reported with BSEC_OK while no subscriber is registered
\* raises no error and calls nothing
C36_OutputWithoutSubscriberIsIgnored ==
    (okOutputs > 0 /\ ~has_subscriber) =>
        /\ cl_pc # "bad_function_call"
        /\ subCalls = 0

====
